---- MODULE Spec2Model ----
(***************************************************************************)
(* The EventRacer AST rewriter (src/src/event-racer-rewriter.cc): the      *)
(* syntax-directed instrumentation of reads, writes, calls and deletes of  *)
(* potentially shared locations, and the function entry/exit hooks.        *)
(*                                                                         *)
(* AST nodes are records tagged by the field k.  The rewrite is the        *)
(* recursive operator Accept (node->Accept(this)), which dispatches to one *)
(* doVisit rule per node kind.  A small evaluator (Eval/Exec) gives the    *)
(* run-time meaning of original and rewritten trees, with the hooks        *)
(* logging their arguments.                                                *)
(***************************************************************************)
EXTENDS Integers, Sequences, FiniteSets, TLC

VARIABLES pc, node, scope0, info, instr_fn_, out, env, run0, run1, registers,
          FLAG_vector_ics, arena, counter, work, pass, walk1

\* The state of the slot counter.
cvars == <<FLAG_vector_ics, arena, counter, work, pass, walk1>>

vars == <<pc, node, scope0, info, instr_fn_, out, env, run0, run1, registers,
          FLAG_vector_ics, arena, counter, work, pass, walk1>>

(***************************************************************************)
(* Bounds of the model.                                                    *)
(***************************************************************************)
MaxArgs == 1
MaxVal == 1
MaxStmts == 2

(***************************************************************************)
(* Scopes.  The resolver's scope tree is a fixed table: 0 is the global    *)
(* scope, 1 a function scope with heap slots (it declares the context      *)
(* variables c and d), 2 a function scope without heap slots nested in 1,  *)
(* 3 a with scope nested in 2, 4 a strict function scope with heap slots   *)
(* nested in 1, 5 and 6 function scopes nested in 3 and in 4, 7 a with     *)
(* scope nested in 5, 8, 9 and 10 function scopes nested in 2, 5 and 6.    *)
(* NoScope stands for a NULL Scope pointer.                                *)
(***************************************************************************)
NoScope == 0 - 1

ScopeRow(outer, heap, with, strict) ==
  [outer |-> outer, heap |-> heap, with |-> with, strict |-> strict]

ScopeTable ==
  [s \in 0..10 |->
     CASE s = 0 -> ScopeRow(NoScope, FALSE, FALSE, FALSE)
       [] s = 1 -> ScopeRow(0, TRUE, FALSE, FALSE)
       [] s = 2 -> ScopeRow(1, FALSE, FALSE, FALSE)
       [] s = 3 -> ScopeRow(2, FALSE, TRUE, FALSE)
       [] s = 4 -> ScopeRow(1, TRUE, FALSE, TRUE)
       [] s = 5 -> ScopeRow(3, FALSE, FALSE, FALSE)
       [] s = 6 -> ScopeRow(4, FALSE, FALSE, TRUE)
       [] s = 7 -> ScopeRow(5, FALSE, TRUE, FALSE)
       [] s = 8 -> ScopeRow(2, FALSE, FALSE, FALSE)
       [] s = 9 -> ScopeRow(5, FALSE, FALSE, FALSE)
       [] s = 10 -> ScopeRow(6, FALSE, FALSE, TRUE)]

\* The scope of a function literal written in scope sc, and the scope of a
\* with statement written in it.
FunScopeOf(sc) == CHOOSE s \in {2, 5, 6, 8, 9, 10} : ScopeTable[s].outer = sc
WithScopeOf(sc) == CHOOSE s \in {3, 7} : ScopeTable[s].outer = sc
HasWithScope(sc) == \E s \in {3, 7} : ScopeTable[s].outer = sc

\* Scope::ContextChainLength: the number of contexts between scope `from'
\* and the enclosing scope `to'.
RECURSIVE ContextChainLength(_, _)
ContextChainLength(from, to) ==
  IF from = to \/ from = NoScope THEN 0
  ELSE (IF ScopeTable[from].with \/ ScopeTable[from].heap THEN 1 ELSE 0)
       + ContextChainLength(ScopeTable[from].outer, to)

strict_mode(sc) == ScopeTable[sc].strict

\* ContextScope: the current-scope register after entering a node whose
\* scope is s; a node without a scope leaves the register as it is.
ContextScope(sc, s) == IF s = NoScope THEN sc ELSE s

(***************************************************************************)
(* AST nodes.                                                              *)
(***************************************************************************)
Var(name, loc, scope, index) ==
  [name |-> name, loc |-> loc, scope |-> scope, index |-> index]

StringLiteral(s) == [k |-> "Str", s |-> s]
SmiLiteral(n) == [k |-> "Smi", n |-> n]
NumberLiteral(n) == [k |-> "Num", n |-> n]
UndefinedLiteral == [k |-> "Undef"]
NullLiteral == [k |-> "Null"]
VariableProxy(var) == [k |-> "VP", name |-> var.name, var |-> var, dni |-> FALSE]
Property(obj, key) == [k |-> "Property", obj |-> obj, key |-> key]
Call(fn, args) == [k |-> "Call", fn |-> fn, args |-> args]
CallRuntime(name, args) == [k |-> "CallRuntime", name |-> name, args |-> args]
UnaryOperation(op, e) == [k |-> "Unary", op |-> op, e |-> e]
BinaryOperation(op, l, r) == [k |-> "Binary", op |-> op, l |-> l, r |-> r]
CountOperation(op, prefix, e) == [k |-> "Count", op |-> op, prefix |-> prefix, e |-> e]
Assignment(op, target, value) ==
  [k |-> "Assign", op |-> op, target |-> target, value |-> value]
ExpressionStatement(e) == [k |-> "ExprStmt", e |-> e]
ReturnStatement(e) == [k |-> "Return", e |-> e]
Block(bscope, decls, stmts) ==
  [k |-> "Block", bscope |-> bscope, decls |-> decls, stmts |-> stmts]
IfStatement(cond, then, else) == [k |-> "If", cond |-> cond, then |-> then, else |-> else]
WithStatement(wscope, e, stmt) == [k |-> "With", wscope |-> wscope, e |-> e, stmt |-> stmt]
EmptyStatement == [k |-> "Empty"]
VariableDeclaration(proxy) == [k |-> "VarDecl", proxy |-> proxy]
FunctionDeclaration(proxy, fun) == [k |-> "FunDecl", proxy |-> proxy, fun |-> fun]
FunctionLiteral(name, scope, decls, body, nparams, lid) ==
  [k |-> "Fun", name |-> name, scope |-> scope, decls |-> decls, body |-> body,
   hasBody |-> TRUE, nparams |-> nparams, fid |-> 0, lid |-> lid]

ObjectLiteral(values) == [k |-> "ObjLit", values |-> values]
ArrayLiteral(values) == [k |-> "ArrLit", values |-> values]
RegExpLiteral(pattern) == [k |-> "RegExp", pattern |-> pattern]
Yield(kind, e) == [k |-> "Yield", kind |-> kind, e |-> e]
ForInStatement(each, subject, body) ==
  [k |-> "ForIn", each |-> each, subject |-> subject, body |-> body]
ForOfStatement(each, subject, body, assign_iterator, next_result, result_done, assign_each) ==
  [k |-> "ForOf", each |-> each, subject |-> subject, body |-> body,
   assign_iterator |-> assign_iterator, next_result |-> next_result,
   result_done |-> result_done, assign_each |-> assign_each]

\* A scope of the input program, as a function literal holds it.
InputScope(id, params) ==
  [id |-> id, outer |-> ScopeTable[id].outer, hack |-> FALSE,
   params |-> params, locals |-> << >>]

ExprKinds ==
  {"Str", "Smi", "Num", "Undef", "Null", "VP", "Property", "Call", "CallRuntime",
   "Unary", "Binary", "Count", "Assign", "Fun"}

\* Token::INC / Token::DEC of a count operation to its binary operator.
binary_op(op) ==
  CASE op = "INC" -> "ADD"
    [] op = "DEC" -> "SUB"
    [] op = "ASSIGN_ADD" -> "ADD"
    [] op = "ASSIGN_SUB" -> "SUB"
    [] OTHER -> op

is_compound(op) == op \in {"ASSIGN_ADD", "ASSIGN_SUB"}

(***************************************************************************)
(* Helpers of the rewriter.                                                *)
(***************************************************************************)
\* The instrumentation functions are dynamic globals of the global scope:
\* the variable is declared there whether or not the scope has a binding of
\* that name.
DeclareDynamicGlobal(name) == Var(name, "lookup", 0, 0 - 1)

\* The instrumentation functions declared by the constructor.
InstrumentationFunctions ==
  {"_ER_read", "_ER_write", "_ER_writeFunc", "_ER_readProp", "_ER_writeProp",
   "_ER_writePropFunc", "_ER_delete", "_ER_deleteProp", "_ER_enterFunction",
   "_ER_exitFunction", "ER_readPropIdx", "ER_writePropIdx",
   "ER_writePropIdxStrict", "ER_writePropIdxFunc", "ER_writePropIdxFuncStrict",
   "ER_deletePropIdx", "ER_deletePropIdxStrict", "ER_preIncProp",
   "ER_preIncPropStrict", "ER_preDecProp", "ER_preDecPropStrict",
   "ER_postIncProp", "ER_postIncPropStrict", "ER_postDecProp",
   "ER_postDecPropStrict"}

\* A variant of the constructor which looks the names up in the global
\* scope and has no variable for a name which is not bound there.
AstRewriterImpl_lookup(i) ==
  [fn \in InstrumentationFunctions |->
     IF fn \in i.global_scope THEN DeclareDynamicGlobal(fn)
     ELSE Var(fn, "null", 0 - 1, 0 - 1)]

\* The constructor: instr_fn_[fn] = globals.DeclareDynamicGlobal(#fn) for
\* each instrumentation function, globals being the global scope of i.
AstRewriterImpl(i) ==
  [fn \in InstrumentationFunctions |-> DeclareDynamicGlobal(fn)]

\* A variant which does not mark the reference.
fn_proxy_instrumented(fn) ==
  [k |-> "VP", name |-> fn, var |-> instr_fn_[fn], dni |-> FALSE]

fn_proxy(fn) ==
  [k |-> "VP", name |-> fn, var |-> instr_fn_[fn], dni |-> TRUE]

\* Variable predicates.
IsStackAllocated(var) == var.loc \in {"parameter", "local"}
IsContextSlot(var) == var.loc = "context"
IsLookupSlot(var) == var.loc = "lookup"
IsUnallocated(var) == var.loc = "unallocated"
IsNullVar(var) == var.loc = "null"

\* Only variables declared by the user which are not stack allocated are
\* instrumented.
is_potentially_shared(vp) ==
  /\ ~vp.dni
  /\ ~IsStackAllocated(vp.var)

NewScope(outer, params, locals) ==
  [id |-> NoScope, outer |-> IF outer = NoScope THEN 0 ELSE outer, hack |-> TRUE,
   params |-> params, locals |-> locals]

make_fn(scope, body, param_count) ==
  [k |-> "Fun", name |-> "", scope |-> scope, decls |-> << >>, body |-> body,
   hasBody |-> TRUE, nparams |-> param_count, fid |-> 0, lid |-> 0]

is_literal_key(ex) == ex.k \in {"Str", "Smi", "Num"}

duplicate_key(lit) ==
  CASE lit.k = "Str" -> StringLiteral(lit.s)
    [] lit.k = "Smi" -> SmiLiteral(lit.n)
    [] lit.k = "Num" -> NumberLiteral(lit.n)

\* The parameters and the local of the synthetic functions.
o_parm == Var("$obj", "parameter", NoScope, 0)
k_parm == Var("$key", "parameter", NoScope, 1)
v_parm(i) == Var("$value", "parameter", NoScope, i)
v_local == Var("$value", "local", NoScope, 0)
arg_name(i) == CASE i = 0 -> "$a0" [] i = 1 -> "$a1" [] i = 2 -> "$a2" [] OTHER -> "$a3"
a_parm(i, first) == Var(arg_name(i), "parameter", NoScope, i + first)

\* A variant of log_vp which takes every context variable from the current
\* context.
log_vp_depth0(vp, value, plain_fn, prop_fn, sc) ==
  IF IsNullVar(vp.var) \/ IsLookupSlot(vp.var) \/ IsUnallocated(vp.var)
  THEN Call(fn_proxy(plain_fn), <<StringLiteral(vp.name), value>>)
  ELSE Call(fn_proxy(prop_fn),
            <<CallRuntime("%GetContextN", <<SmiLiteral(0)>>),
              StringLiteral(vp.name), value>>)

\* A variant of log_vp which logs an access of a global twice.
log_vp_twice(vp, value, plain_fn, prop_fn, sc) ==
  IF IsNullVar(vp.var) \/ IsLookupSlot(vp.var) \/ IsUnallocated(vp.var)
  THEN Call(fn_proxy(plain_fn),
            <<StringLiteral(vp.name),
              Call(fn_proxy(plain_fn), <<StringLiteral(vp.name), value>>)>>)
  ELSE Call(fn_proxy(prop_fn),
            <<CallRuntime("%GetContextN",
                          <<SmiLiteral(ContextChainLength(sc, vp.var.scope))>>),
              StringLiteral(vp.name), value>>)

log_vp(vp, value, plain_fn, prop_fn, sc) ==
  IF IsNullVar(vp.var) \/ IsLookupSlot(vp.var) \/ IsUnallocated(vp.var)
  THEN IF plain_fn = "_ER_write" /\ value.k = "Fun"
       THEN Call(fn_proxy("_ER_writeFunc"),
                 <<StringLiteral(vp.name), value, SmiLiteral(value.fid)>>)
       ELSE Call(fn_proxy(plain_fn), <<StringLiteral(vp.name), value>>)
  ELSE Call(fn_proxy(prop_fn),
            <<CallRuntime("%GetContextN",
                          <<SmiLiteral(ContextChainLength(sc, vp.var.scope))>>),
              StringLiteral(vp.name), value>>)

(***************************************************************************)
(* The rewrite rules: one doVisit per node kind.  sc is the current-scope  *)
(* register, context()->scope.                                             *)
(***************************************************************************)
RECURSIVE Accept(_, _)

\* rewrite(this, lst): every element of a list is replaced by its rewrite.
rewriteList(lst, sc) == [i \in 1..Len(lst) |-> Accept(lst[i], sc)]

\* Call::GetCallType(...) == Call::POSSIBLY_EVAL_CALL
IsPossiblyEvalCall(c) == c.fn.k = "VP" /\ c.fn.name = "eval"

doVisitFunctionDeclaration(fn, sc) == [fn EXCEPT !.fun = Accept(fn.fun, sc)]

doVisitBlock(blk, sc) ==
  LET in == ContextScope(sc, blk.bscope)
  IN [blk EXCEPT !.decls = IF blk.bscope # NoScope THEN rewriteList(blk.decls, in)
                           ELSE blk.decls,
                 !.stmts = rewriteList(blk.stmts, in)]

doVisitExpressionStatement(st, sc) == [st EXCEPT !.e = Accept(st.e, sc)]

\* A variant of the rule which leaves the returned value as it is.
return_unwrapped(st, sc) == ReturnStatement(Accept(st.e, sc))

doVisitReturnStatement(st, sc) ==
  ReturnStatement(Call(fn_proxy("_ER_exitFunction"), <<Accept(st.e, sc)>>))

doVisitWithStatement(st, sc) ==
  LET in == ContextScope(sc, st.wscope)
  IN [st EXCEPT !.e = Accept(st.e, in), !.stmt = Accept(st.stmt, in)]

doVisitForInStatement(st, sc) ==
  [st EXCEPT !.subject = Accept(st.subject, sc), !.body = Accept(st.body, sc)]

\* The four expressions the parser has made for the iteration are left as
\* they are.
doVisitForOfStatement(st, sc) ==
  [st EXCEPT !.subject = Accept(st.subject, sc), !.body = Accept(st.body, sc)]

doVisitObjectLiteral(lit, sc) == [lit EXCEPT !.values = rewriteList(lit.values, sc)]

doVisitArrayLiteral(lit, sc) == [lit EXCEPT !.values = rewriteList(lit.values, sc)]

doVisitYield(op, sc) ==
  IF op.kind \in {"SUSPEND", "FINAL"} THEN [op EXCEPT !.e = Accept(op.e, sc)] ELSE op

doVisitIfStatement(st, sc) ==
  [st EXCEPT !.cond = Accept(st.cond, sc),
             !.then = Accept(st.then, sc),
             !.else = Accept(st.else, sc)]

\* A variant of the rule which leaves every identifier read as it is.
read_unlogged(vp, sc) == vp

doVisitVariableProxy(vp, sc) ==
  IF ~is_potentially_shared(vp) THEN vp
  ELSE log_vp(vp, vp, "_ER_read", "_ER_readProp", sc)

\* A variant of the rule which passes the property read to the hook without
\* a wrapper function, so that the object and the key occur twice.
read_prop_inline(p, sc) ==
  LET obj == Accept(p.obj, sc)
      key == Accept(p.key, sc)
  IN Call(fn_proxy("_ER_readProp"), <<obj, key, Property(obj, key)>>)

doVisitProperty(p, sc) ==
  LET obj == Accept(p.obj, sc)
      key == Accept(p.key, sc)
  IN IF is_literal_key(key)
     THEN LET scope == NewScope(sc, <<o_parm>>, << >>)
              o == VariableProxy(o_parm)
              body == <<ReturnStatement(
                          Call(fn_proxy("_ER_readProp"),
                               <<o, duplicate_key(key),
                                 Property(o, duplicate_key(key))>>))>>
              fn == make_fn(scope, body, 1 + (IF is_literal_key(key) THEN 0 ELSE 1))
          IN Call(fn, <<obj>>)
     ELSE Call(fn_proxy("ER_readPropIdx"), <<obj, key>>)

\* A variant of the rule which reads the callee of every call through the
\* read hook.
call_callee_read(c, sc) ==
  [c EXCEPT !.fn = Accept(c.fn, sc), !.args = rewriteList(c.args, sc)]

\* A variant of the rule which calls the property of $obj without the
\* receiver: the function is read into the callee position by the hook.
call_without_receiver(c, sc) ==
  IF c.fn.k # "Property"
  THEN [c EXCEPT !.fn = IF ~IsPossiblyEvalCall(c) THEN Accept(c.fn, sc) ELSE c.fn,
                 !.args = rewriteList(c.args, sc)]
  ELSE LET obj == Accept(c.fn.obj, sc)
           key == Accept(c.fn.key, sc)
           args == rewriteList(c.args, sc)
           n == Len(args)
           lit == is_literal_key(key)
           first == 1 + (IF lit THEN 0 ELSE 1)
           params == <<o_parm>> \o (IF lit THEN << >> ELSE <<k_parm>>)
                     \o [i \in 1..n |-> a_parm(i - 1, first)]
           scope == NewScope(sc, params, << >>)
           o == VariableProxy(o_parm)
           kk == IF lit THEN duplicate_key(key) ELSE VariableProxy(k_parm)
           body == <<ReturnStatement(
                       Call(Call(fn_proxy("_ER_readProp"), <<o, kk, Property(o, kk)>>),
                            [i \in 1..n |-> VariableProxy(scope.params[i + first])]))>>
           fn == make_fn(scope, body, n + first)
       IN Call(fn, <<obj>> \o (IF lit THEN << >> ELSE <<key>>) \o args)

doVisitCall(c, sc) ==
  IF c.fn.k # "Property"
  THEN [c EXCEPT !.fn = IF ~IsPossiblyEvalCall(c) THEN Accept(c.fn, sc) ELSE c.fn,
                 !.args = rewriteList(c.args, sc)]
  ELSE LET obj == Accept(c.fn.obj, sc)
           key == Accept(c.fn.key, sc)
           args == rewriteList(c.args, sc)
           n == Len(args)
           lit == is_literal_key(key)
           first == 1 + (IF lit THEN 0 ELSE 1)
           params == <<o_parm>> \o (IF lit THEN << >> ELSE <<k_parm>>)
                     \o [i \in 1..n |-> a_parm(i - 1, first)]
           scope == NewScope(sc, params, << >>)
           o == VariableProxy(o_parm)
           kk == IF lit THEN duplicate_key(key) ELSE VariableProxy(k_parm)
           body == <<ExpressionStatement(
                       Call(fn_proxy("_ER_readProp"), <<o, kk, Property(o, kk)>>)),
                     ReturnStatement(
                       Call(Property(o, kk),
                            [i \in 1..n |-> VariableProxy(scope.params[i + first])]))>>
           fn == make_fn(scope, body, n + first)
       IN Call(fn, <<obj>> \o (IF lit THEN << >> ELSE <<key>>) \o args)

\* c->function()->function_id == Runtime::kInitializeVarGlobal
IsInitializeVarGlobal(c) == c.k = "CallRuntime" /\ c.name = "%InitializeVarGlobal"

\* c->arguments()->at(2) lies behind the end of the argument list.
ReadsPastArguments(c) == IsInitializeVarGlobal(c) /\ Len(c.args) < 3

\* The initialization of a global variable is a write: the value argument
\* is replaced by ER_write(name, value), ER_writeFunc(name, value, id) for a
\* function literal.  The rule takes the third argument whatever the
\* number of the arguments; where there is none, the result below is the
\* one of a build in which the access behind the list has no effect.
doVisitCallRuntime(c, sc) ==
  LET args == rewriteList(c.args, sc)
  IN IF IsInitializeVarGlobal(c) /\ Len(args) >= 3
     THEN LET value == args[3]
              call == IF value.k = "Fun"
                      THEN Call(fn_proxy("_ER_writeFunc"),
                                <<duplicate_key(args[1]), value,
                                  SmiLiteral(value.fid)>>)
                      ELSE Call(fn_proxy("_ER_write"),
                                <<duplicate_key(args[1]), value>>)
          IN [c EXCEPT !.args = [args EXCEPT ![3] = call]]
     ELSE [c EXCEPT !.args = args]

\* A variant of the delete of a global whose function does not return the
\* result of the delete.
delete_vp_no_return(vp, sc) ==
  LET scope == NewScope(sc, << >>, << >>)
      body == <<ExpressionStatement(
                  Call(fn_proxy("_ER_delete"), <<StringLiteral(vp.name)>>)),
                ExpressionStatement(
                  UnaryOperation("DELETE", VariableProxy(vp.var)))>>
  IN Call(make_fn(scope, body, 0), << >>)

\* delete v of a property of the global object:
\* (function() { ER_delete("v"); return delete v; })().
delete_vp(vp, sc) ==
  LET scope == NewScope(sc, << >>, << >>)
      body == <<ExpressionStatement(
                  Call(fn_proxy("_ER_delete"), <<StringLiteral(vp.name)>>)),
                ReturnStatement(
                  UnaryOperation("DELETE", VariableProxy(vp.var)))>>
  IN Call(make_fn(scope, body, 0), << >>)

\* A variant of the rule which reads the operand of typeof like any other
\* operand: typeof ER_read("v", v).
unary_operand_read(op, sc) == [op EXCEPT !.e = Accept(op.e, sc)]

doVisitUnaryOperation(op, sc) ==
  IF op.op = "DELETE" /\ op.e.k = "Property"
  THEN LET obj == Accept(op.e.obj, sc)
           key == Accept(op.e.key, sc)
       IN IF is_literal_key(key)
          THEN LET scope == NewScope(sc, <<o_parm>>, << >>)
                   o == VariableProxy(o_parm)
                   kk == duplicate_key(key)
                   body == <<ExpressionStatement(
                               Call(fn_proxy("_ER_deleteProp"), <<o, kk>>)),
                             ReturnStatement(
                               UnaryOperation("DELETE", Property(o, kk)))>>
               IN Call(make_fn(scope, body, 1), <<obj>>)
          ELSE Call(fn_proxy(IF ~strict_mode(sc) THEN "ER_deletePropIdx"
                             ELSE "ER_deletePropIdxStrict"),
                    <<obj, key>>)
  ELSE IF /\ op.op = "DELETE"
          /\ op.e.k = "VP"
          /\ \/ IsUnallocated(op.e.var)
             \/ ~IsStackAllocated(op.e.var) /\ ~IsContextSlot(op.e.var)
  THEN delete_vp(op.e, sc)
  ELSE IF op.op = "TYPEOF" /\ op.e.k = "VP" /\ is_potentially_shared(op.e)
  THEN log_vp(op.e, op, "_ER_read", "_ER_readProp", sc)
  ELSE [op EXCEPT !.e = Accept(op.e, sc)]

doVisitBinaryOperation(op, sc) ==
  [op EXCEPT !.l = Accept(op.l, sc), !.r = Accept(op.r, sc)]

\* The hook of an increment or decrement of a property with a computed key.
count_prop_fn(op, prefix, sc) ==
  IF prefix
  THEN IF op = "INC"
       THEN (IF ~strict_mode(sc) THEN "ER_preIncProp" ELSE "ER_preIncPropStrict")
       ELSE (IF ~strict_mode(sc) THEN "ER_preDecProp" ELSE "ER_preDecPropStrict")
  ELSE IF op = "INC"
       THEN (IF ~strict_mode(sc) THEN "ER_postIncProp" ELSE "ER_postIncPropStrict")
       ELSE (IF ~strict_mode(sc) THEN "ER_postDecProp" ELSE "ER_postDecPropStrict")

\* Prefix ++x / --x of a potentially shared identifier:
\* x = ER_write("x", x + 1).
count_prefix_vp(op, sc) ==
  LET value == BinaryOperation(binary_op(op.op), VariableProxy(op.e.var),
                               SmiLiteral(1))
  IN Assignment("ASSIGN", op.e,
                log_vp(op.e, value, "_ER_write", "_ER_writeProp", sc))

\* A variant of the postfix rule which yields the new value.
count_postfix_new(op, sc) == count_prefix_vp(op, sc)

\* Postfix x++ / x-- of a potentially shared identifier:
\* (function() { let $v = x; x = ER_write("x", $v + 1); return $v; })().
count_postfix_vp(op, sc) ==
  LET scope == NewScope(sc, << >>, <<v_local>>)
      blk == Block(NoScope, << >>,
                   <<ExpressionStatement(
                       Assignment("INIT_LET", VariableProxy(v_local),
                                  VariableProxy(op.e.var)))>>)
      newval == BinaryOperation(binary_op(op.op), VariableProxy(v_local),
                                SmiLiteral(1))
      body == <<blk,
                ExpressionStatement(
                  Assignment("ASSIGN", VariableProxy(op.e.var),
                             log_vp(op.e, newval, "_ER_write",
                                    "_ER_writeProp", sc))),
                ReturnStatement(VariableProxy(v_local))>>
  IN Call(make_fn(scope, body, 0), << >>)

\* Prefix ++o.k / --o.k with a literal key.
count_prefix_prop(op, obj, key, sc) ==
  LET scope == NewScope(sc, <<o_parm>>, << >>)
      o == VariableProxy(o_parm)
      kk == duplicate_key(key)
      args == <<o, kk,
                BinaryOperation(binary_op(op.op), Property(o, kk), SmiLiteral(1))>>
      body == <<ReturnStatement(
                  Assignment("ASSIGN", Property(o, kk),
                             Call(fn_proxy("_ER_writeProp"), args)))>>
  IN Call(make_fn(scope, body, 1), <<obj>>)

\* Postfix o.k++ / o.k-- with a literal key.
count_postfix_prop(op, obj, key, sc) ==
  LET scope == NewScope(sc, <<o_parm>>, <<v_local>>)
      o == VariableProxy(o_parm)
      kk == duplicate_key(key)
      blk == Block(NoScope, << >>,
                   <<ExpressionStatement(
                       Assignment("INIT_LET", VariableProxy(v_local),
                                  Property(o, kk)))>>)
      args == <<o, kk,
                BinaryOperation(binary_op(op.op), VariableProxy(v_local),
                                SmiLiteral(1))>>
      body == <<blk,
                ExpressionStatement(
                  Assignment("ASSIGN", Property(o, kk),
                             Call(fn_proxy("_ER_writeProp"), args))),
                ReturnStatement(VariableProxy(v_local))>>
  IN Call(make_fn(scope, body, 1), <<obj>>)

doVisitCountOperation(op, sc) ==
  IF op.e.k = "VP"
  THEN IF ~is_potentially_shared(op.e) THEN op
       ELSE IF op.prefix THEN count_prefix_vp(op, sc)
       ELSE count_postfix_vp(op, sc)
  ELSE LET obj == Accept(op.e.obj, sc)
           key == Accept(op.e.key, sc)
       IN IF ~is_literal_key(key)
          THEN Call(fn_proxy(count_prop_fn(op.op, op.prefix, sc)), <<obj, key>>)
          ELSE IF op.prefix THEN count_prefix_prop(op, obj, key, sc)
          ELSE count_postfix_prop(op, obj, key, sc)

\* The hook of a simple assignment to a property with a computed key.
write_idx_fn(value, sc) ==
  IF value.k = "Fun"
  THEN (IF ~strict_mode(sc) THEN "ER_writePropIdxFunc" ELSE "ER_writePropIdxFuncStrict")
  ELSE (IF ~strict_mode(sc) THEN "ER_writePropIdx" ELSE "ER_writePropIdxStrict")

\* A variant of the rule which logs the assignment to every identifier.
assign_logged(op, sc) ==
  IF op.target.k = "VP"
  THEN [op EXCEPT !.value = log_vp(op.target, Accept(op.value, sc), "_ER_write",
                                   "_ER_writeProp", sc)]
  ELSE op

\* A variant of the rule which logs a compound assignment to a property
\* without a function around it, so that the object is written three times.
assign_prop_inline(op, sc) ==
  IF op.target.k = "Property" /\ is_compound(op.op)
  THEN LET obj == Accept(op.target.obj, sc)
           key == Accept(op.target.key, sc)
           p == Property(obj, key)
       IN Assignment("ASSIGN", p,
                     Call(fn_proxy("_ER_writeProp"),
                          <<obj, key,
                            BinaryOperation(binary_op(op.op), p,
                                            Accept(op.value, sc))>>))
  ELSE op

doVisitAssignment(op, sc) ==
  LET value == Accept(op.value, sc)
  IN IF op.target.k = "VP"
     THEN LET vp == op.target
          IN IF ~is_potentially_shared(vp) THEN [op EXCEPT !.value = value]
             ELSE IF is_compound(op.op)
             THEN LET binop == BinaryOperation(binary_op(op.op), vp, value)
                  IN [op EXCEPT !.op = "ASSIGN",
                                !.target = VariableProxy(vp.var),
                                !.value = log_vp(vp, binop, "_ER_write",
                                                 "_ER_writeProp", sc)]
             ELSE [op EXCEPT !.value = log_vp(vp, value, "_ER_write",
                                              "_ER_writeProp", sc)]
     ELSE LET obj == Accept(op.target.obj, sc)
              key == Accept(op.target.key, sc)
              o == VariableProxy(o_parm)
          IN IF is_literal_key(key)
             THEN LET scope == NewScope(sc, <<o_parm, v_parm(1)>>, << >>)
                      kk == duplicate_key(key)
                      v == VariableProxy(v_parm(1))
                      isfn == ~is_compound(op.op) /\ value.k = "Fun"
                      args == <<o, kk,
                                IF is_compound(op.op)
                                THEN BinaryOperation(binary_op(op.op),
                                                     Property(o, kk), v)
                                ELSE v>>
                              \o (IF isfn THEN <<SmiLiteral(value.fid)>> ELSE << >>)
                      fn == IF isfn THEN "_ER_writePropFunc" ELSE "_ER_writeProp"
                      body == <<ReturnStatement(
                                  Assignment("ASSIGN", Property(o, kk),
                                             Call(fn_proxy(fn), args)))>>
                  IN Call(make_fn(scope, body, 2), <<obj, value>>)
             ELSE IF is_compound(op.op)
             THEN LET scope == NewScope(sc, <<o_parm, k_parm, v_parm(2)>>, << >>)
                      kk == VariableProxy(k_parm)
                      v == VariableProxy(v_parm(2))
                      args == <<o, kk,
                                BinaryOperation(binary_op(op.op), Property(o, kk), v)>>
                      body == <<ReturnStatement(
                                  Assignment("ASSIGN", Property(o, kk),
                                             Call(fn_proxy("_ER_writeProp"), args)))>>
                  IN Call(make_fn(scope, body, 3), <<obj, key, value>>)
             ELSE Call(fn_proxy(write_idx_fn(value, sc)),
                       <<obj, key, value>>
                       \o (IF value.k = "Fun" THEN <<SmiLiteral(value.fid)>>
                           ELSE << >>))

\* FunctionLiteral::initialize_function_id: a literal without an id gets a
\* fresh one; literal lid gets the id lid.
initialize_function_id(lit) == lit.lid

\* A variant which announces the declared functions without their ids.
write_func_no_id(dcls) ==
  LET IsFunDecl(d) == d.k = "FunDecl"
      fs == SelectSeq(dcls, IsFunDecl)
  IN [i \in 1..Len(fs) |->
        ExpressionStatement(
          Call(fn_proxy("_ER_writeFunc"),
               <<StringLiteral(fs[Len(fs) + 1 - i].proxy.name), NullLiteral,
                 SmiLiteral(0)>>))]

\* The statements announcing the function declarations of a scope.  Each
\* is inserted at position 0 of the body, so the statement of the last
\* declaration comes first.
RECURSIVE write_func_stmts(_)
write_func_stmts(dcls) ==
  IF Len(dcls) = 0 THEN << >>
  ELSE LET d == dcls[Len(dcls)]
           rest == write_func_stmts(SubSeq(dcls, 1, Len(dcls) - 1))
       IN IF d.k = "FunDecl"
          THEN <<ExpressionStatement(
                   Call(fn_proxy("_ER_writeFunc"),
                        <<StringLiteral(d.proxy.name), NullLiteral,
                          SmiLiteral(d.fun.fid)>>))>> \o rest
          ELSE rest

\* The statement logging the function entry.
enter_stmt(lit, scriptId) ==
  ExpressionStatement(
    Call(fn_proxy("_ER_enterFunction"),
         <<IF lit.name # "" THEN StringLiteral(lit.name) ELSE NullLiteral,
           SmiLiteral(scriptId),
           SmiLiteral(lit.fid)>>))

\* A variant which logs the function entry after the declared functions.
insert_entry_late(lit, dcls, body, scriptId) ==
  write_func_stmts(dcls) \o <<enter_stmt(lit, scriptId)>> \o body

\* The body with the statements of the declared functions and then the
\* statement of the function entry inserted at position 0.
insert_entry(lit, dcls, body, scriptId) ==
  <<enter_stmt(lit, scriptId)>> \o write_func_stmts(dcls) \o body

\* The statement logging the function exit.
exit_stmt ==
  ReturnStatement(Call(fn_proxy("_ER_exitFunction"), <<UndefinedLiteral>>))

\* A variant which logs the function exit after every body.
add_exit_always(body) == Append(body, exit_stmt)

\* The body with the function exit logged, if the last statement is not a
\* return.
add_exit(body) ==
  IF body[Len(body)].k # "Return" THEN Append(body, exit_stmt) ELSE body

\* set_function_id / initialize_function_id.
function_id(lit, shared) ==
  IF shared # 0 THEN shared ELSE initialize_function_id(lit)

doVisitFunctionLiteral(lit0, sc) ==
  LET lit == [lit0 EXCEPT !.fid = function_id(lit0, info.shared)]
      in == ContextScope(sc, lit.scope.id)
      dcls == rewriteList(lit.decls, in)
  IN IF ~lit.hasBody \/ Len(lit.body) = 0
     THEN [lit EXCEPT !.decls = dcls]
     ELSE [lit EXCEPT !.decls = dcls,
                      !.body = add_exit(insert_entry(lit, dcls,
                                                     rewriteList(lit.body, in),
                                                     info.script))]

\* node->Accept(this)
Accept(n, sc) ==
  CASE n.k = "VP" -> doVisitVariableProxy(n, sc)
    [] n.k = "Property" -> doVisitProperty(n, sc)
    [] n.k = "Call" -> doVisitCall(n, sc)
    [] n.k = "CallRuntime" -> doVisitCallRuntime(n, sc)
    [] n.k = "Unary" -> doVisitUnaryOperation(n, sc)
    [] n.k = "Binary" -> doVisitBinaryOperation(n, sc)
    [] n.k = "Count" -> doVisitCountOperation(n, sc)
    [] n.k = "Assign" -> doVisitAssignment(n, sc)
    [] n.k = "Fun" -> doVisitFunctionLiteral(n, sc)
    [] n.k = "FunDecl" -> doVisitFunctionDeclaration(n, sc)
    [] n.k = "Block" -> doVisitBlock(n, sc)
    [] n.k = "ExprStmt" -> doVisitExpressionStatement(n, sc)
    [] n.k = "Return" -> doVisitReturnStatement(n, sc)
    [] n.k = "With" -> doVisitWithStatement(n, sc)
    [] n.k = "If" -> doVisitIfStatement(n, sc)
    [] n.k = "ForIn" -> doVisitForInStatement(n, sc)
    [] n.k = "ForOf" -> doVisitForOfStatement(n, sc)
    [] n.k = "ObjLit" -> doVisitObjectLiteral(n, sc)
    [] n.k = "ArrLit" -> doVisitArrayLiteral(n, sc)
    [] n.k = "Yield" -> doVisitYield(n, sc)
    [] OTHER -> n

(***************************************************************************)
(* The registers of the pass: the chain of ContextScopes, the current one  *)
(* first, and the chain of AstNodeIdAllocationScopes.  A scoped object is  *)
(* put on its chain where a rule declares it and taken off where the rule  *)
(* returns.                                                                *)
(***************************************************************************)
Registers(context, alloc) == [current_context_ |-> context, id_alloc_scope_ |-> alloc]

\* The pass starts in the scope of the node it is given.
StartRegisters(sc) == Registers(<<sc>>, << >>)

EnterContext(r, s) ==
  [r EXCEPT !.current_context_ = <<ContextScope(@[1], s)>> \o @]
ExitContext(r) == [r EXCEPT !.current_context_ = Tail(@)]
EnterAllocation(r, lit) == [r EXCEPT !.id_alloc_scope_ = <<lit>> \o @]
ExitAllocation(r) == [r EXCEPT !.id_alloc_scope_ = Tail(@)]

\* The nodes a rule passes to rewrite(), in its order.
Rewritten(n) ==
  CASE n.k = "Property" -> <<n.obj, n.key>>
    [] n.k = "Call" ->
         (IF n.fn.k = "Property" THEN <<n.fn.obj, n.fn.key>>
          ELSE IF IsPossiblyEvalCall(n) THEN << >> ELSE <<n.fn>>) \o n.args
    [] n.k = "CallRuntime" -> n.args
    [] n.k = "Unary" ->
         IF n.op = "DELETE" /\ n.e.k = "Property" THEN <<n.e.obj, n.e.key>>
         ELSE IF /\ n.op = "DELETE"
                 /\ n.e.k = "VP"
                 /\ \/ IsUnallocated(n.e.var)
                    \/ ~IsStackAllocated(n.e.var) /\ ~IsContextSlot(n.e.var)
         THEN << >>
         ELSE IF n.op = "TYPEOF" /\ n.e.k = "VP" /\ is_potentially_shared(n.e)
         THEN << >>
         ELSE <<n.e>>
    [] n.k = "Binary" -> <<n.l, n.r>>
    [] n.k = "Count" -> IF n.e.k = "Property" THEN <<n.e.obj, n.e.key>> ELSE << >>
    [] n.k = "Assign" ->
         <<n.value>>
         \o (IF n.target.k = "Property" THEN <<n.target.obj, n.target.key>> ELSE << >>)
    [] n.k = "Fun" -> n.decls \o (IF n.hasBody THEN n.body ELSE << >>)
    [] n.k = "FunDecl" -> <<n.fun>>
    [] n.k = "Block" -> (IF n.bscope # NoScope THEN n.decls ELSE << >>) \o n.stmts
    [] n.k \in {"ExprStmt", "Return"} -> <<n.e>>
    [] n.k = "With" -> <<n.e, n.stmt>>
    [] n.k = "If" -> <<n.cond, n.then, n.else>>
    [] n.k \in {"ForIn", "ForOf"} -> <<n.subject, n.body>>
    [] n.k \in {"ObjLit", "ArrLit"} -> n.values
    [] n.k = "Yield" -> IF n.kind \in {"SUSPEND", "FINAL"} THEN <<n.e>> ELSE << >>
    [] OTHER -> << >>

\* The rule of n builds a function in a block with an allocation scope of
\* its own.
IsSynthesized(r) == r.k = "Call" /\ r.fn.k = "Fun" /\ r.fn.scope.hack
Synthesizes(n, sc) ==
  /\ n.k \in {"Property", "Call", "Unary", "Count", "Assign"}
  /\ n.k = "Call" => n.fn.k = "Property"
  /\ IsSynthesized(Accept(n, sc))

\* The scoped objects a rule declares before it rewrites the children.
Entered(n, r) ==
  CASE n.k = "Block" -> EnterContext(r, n.bscope)
    [] n.k = "With" -> EnterContext(r, n.wscope)
    [] n.k = "Fun" -> EnterAllocation(EnterContext(r, n.scope.id), n.lid)
    [] OTHER -> r

\* A variant in which the early return of a function literal with an empty
\* body leaves the scoped objects of the rule on their chains.
Left_early_return(n, r) ==
  CASE n.k \in {"Block", "With"} -> ExitContext(r)
    [] n.k = "Fun" -> IF ~n.hasBody \/ Len(n.body) = 0 THEN r
                      ELSE ExitContext(ExitAllocation(r))
    [] OTHER -> r

\* The scoped objects of a rule are destroyed wherever the rule returns.
Left(n, r) ==
  CASE n.k \in {"Block", "With"} -> ExitContext(r)
    [] n.k = "Fun" -> ExitContext(ExitAllocation(r))
    [] OTHER -> r

\* The block in which a rule builds a function.
Synthesized(n, r) ==
  IF \E sc \in {r.current_context_[1]} : Synthesizes(n, sc)
  THEN ExitAllocation(EnterAllocation(r, 0))
  ELSE r

\* The registers during the pass, and whether every rule which has returned
\* so far has left them as it has found them.
Tracked(regs, ok) == [regs |-> regs, ok |-> ok]
Returns(before, t) == Tracked(t.regs, t.ok /\ t.regs = before)
Finishes(n, t) == Tracked(Left(n, Synthesized(n, t.regs)), t.ok)

\* The one element of a set of one element.
Only(S) == CHOOSE x \in S : TRUE

\* The rule of n: its scoped objects are declared, the nodes it passes to
\* rewrite() are rewritten one after the other (u is the state in which the
\* rewrite of the first has returned, b the state after the last), and the
\* rule returns.
RECURSIVE Track(_, _)
RECURSIVE TrackList(_, _)
Track(n, t) ==
  Only({Returns(t.regs, f) :
          f \in {Finishes(n, b) :
                   b \in {TrackList(Rewritten(n), Tracked(Entered(n, t.regs), t.ok))}}})
TrackList(ns, t) ==
  IF ns = << >> THEN t
  ELSE Only({TrackList(Tail(ns), u) : u \in {Track(Head(ns), t)}})

RegistersAfter(n, sc) == Track(n, Tracked(StartRegisters(sc), TRUE))

(***************************************************************************)
(* Run-time meaning of the trees.  A value is a record [t, n, s]; a store  *)
(* holds the global object's properties (glob), the context-allocated      *)
(* variables (ctxv), the current stack frame (loc), the heap of objects    *)
(* (heap) and the log of hook calls (log).  A hook logs its arguments and  *)
(* returns its value argument; a hook of a computed key performs the real  *)
(* operation.  An evaluation that throws, or leaves the modelled fragment  *)
(* of the language, ends with ok = FALSE.                                   *)
(***************************************************************************)
Val(t, n, s) == [t |-> t, n |-> n, s |-> s]
NumV(n) == Val("num", n, "")
NaNV == Val("nan", 0, "")
UndefV == Val("undef", 0, "")
NullV == Val("null", 0, "")
AbsentV == Val("absent", 0, "")
BoolV(b) == Val("bool", IF b THEN 1 ELSE 0, "")
StrV(s) == Val("str", 0, s)
ObjV(id) == Val("obj", id, "")
FunV(id) == Val("fun", id, "")
ClosureV(lid) == Val("closure", lid, "")
CtxV(d) == Val("ctx", d, "")

GlobalNames == {"g", "u", "l", "o", "f", "mk"}
ContextNames == {"c", "d"}
LocalNames == {"a", "b", "i", "$obj", "$key", "$value", "$a0", "$a1", "$a2", "$a3"}
ObjIds == {1, 2}
Keys == {"p", "q", "r", "0", "1", "2", "NaN", "undefined"}

Res(ok, ret, v, st) == [ok |-> ok, ret |-> ret, v |-> v, st |-> st]
Fail(st) == Res(FALSE, FALSE, UndefV, st)

\* ToString of a property key.
ToKey(v) ==
  CASE v.t = "str" -> v.s
    [] v.t = "num" /\ v.n = 0 -> "0"
    [] v.t = "num" /\ v.n = 1 -> "1"
    [] v.t = "num" /\ v.n = 2 -> "2"
    [] v.t = "nan" -> "NaN"
    [] v.t = "undef" -> "undefined"
    [] OTHER -> ""

IsKey(v) == ToKey(v) \in Keys

\* ToNumber, on the values whose conversion is modelled.
HasNumber(v) == v.t \in {"num", "nan", "undef", "null", "bool"}
ToNumber(v) ==
  CASE v.t = "num" -> v
    [] v.t = "null" -> NumV(0)
    [] v.t = "bool" -> NumV(v.n)
    [] OTHER -> NaNV

\* The binary operators + and -.  Addition is numeric only when neither
\* operand is a string, an object or a function.
Arith(op, l, r) ==
  LET a == ToNumber(l)
      b == ToNumber(r)
  IN IF a.t = "nan" \/ b.t = "nan" THEN NaNV
     ELSE IF op = "ADD" THEN NumV(a.n + b.n) ELSE NumV(a.n - b.n)

TypeOf(v) ==
  CASE v.t \in {"num", "nan"} -> "number"
    [] v.t \in {"undef", "absent"} -> "undefined"
    [] v.t = "bool" -> "boolean"
    [] v.t = "str" -> "string"
    [] v.t \in {"fun", "closure"} -> "function"
    [] OTHER -> "object"

LookupVar(var, st) ==
  IF var.loc \in {"parameter", "local"} THEN st.loc[var.name]
  ELSE IF var.loc = "context" THEN st.ctxv[var.name]
  ELSE st.glob[var.name]

StoreVar(var, v, st) ==
  IF var.loc \in {"parameter", "local"} THEN [st EXCEPT !.loc[var.name] = v]
  ELSE IF var.loc = "context" THEN [st EXCEPT !.ctxv[var.name] = v]
  ELSE [st EXCEPT !.glob[var.name] = v]

VarKnown(var) ==
  IF var.loc \in {"parameter", "local"} THEN var.name \in LocalNames
  ELSE IF var.loc = "context" THEN var.name \in ContextNames
  ELSE var.name \in GlobalNames

GetProp(o, key, st) ==
  LET v == st.heap[o.n][ToKey(key)] IN IF v.t = "absent" THEN UndefV ELSE v

PutProp(o, key, v, st) == [st EXCEPT !.heap[o.n][ToKey(key)] = v]

CanAccess(o, key) == o.t = "obj" /\ o.n \in ObjIds /\ IsKey(key)

\* ++ and -- of the property key of object o.
CountProp(op, prefix, o, key, st) ==
  IF ~CanAccess(o, key) \/ ~HasNumber(GetProp(o, key, st)) THEN Fail(st)
  ELSE LET old == ToNumber(GetProp(o, key, st))
           new == Arith(binary_op(op), old, NumV(1))
       IN Res(TRUE, FALSE, IF prefix THEN new ELSE old, PutProp(o, key, new, st))

\* A call of an instrumentation function with evaluated arguments.
Hook(fn, args, st0) ==
  LET st == [st0 EXCEPT !.log = Append(st0.log, [fn |-> fn, args |-> args])]
  IN CASE fn \in {"_ER_read", "_ER_write", "_ER_writeFunc"} /\ Len(args) >= 2 ->
            Res(TRUE, FALSE, args[2], st)
       [] fn \in {"_ER_readProp", "_ER_writeProp", "_ER_writePropFunc"}
          /\ Len(args) >= 3 ->
            Res(TRUE, FALSE, args[3], st)
       [] fn = "_ER_exitFunction" /\ Len(args) >= 1 -> Res(TRUE, FALSE, args[1], st)
       [] fn \in {"_ER_delete", "_ER_deleteProp", "_ER_enterFunction"} ->
            Res(TRUE, FALSE, UndefV, st)
       [] fn = "ER_readPropIdx" /\ Len(args) = 2 ->
            IF CanAccess(args[1], args[2])
            THEN Res(TRUE, FALSE, GetProp(args[1], args[2], st), st)
            ELSE Fail(st)
       [] fn \in {"ER_writePropIdx", "ER_writePropIdxStrict", "ER_writePropIdxFunc",
                  "ER_writePropIdxFuncStrict"} /\ Len(args) >= 3 ->
            IF CanAccess(args[1], args[2])
            THEN Res(TRUE, FALSE, args[3], PutProp(args[1], args[2], args[3], st))
            ELSE Fail(st)
       [] fn \in {"ER_deletePropIdx", "ER_deletePropIdxStrict"} /\ Len(args) = 2 ->
            IF CanAccess(args[1], args[2])
            THEN Res(TRUE, FALSE, BoolV(TRUE), PutProp(args[1], args[2], AbsentV, st))
            ELSE Fail(st)
       [] fn \in {"ER_preIncProp", "ER_preIncPropStrict"} /\ Len(args) = 2 ->
            CountProp("INC", TRUE, args[1], args[2], st)
       [] fn \in {"ER_preDecProp", "ER_preDecPropStrict"} /\ Len(args) = 2 ->
            CountProp("DEC", TRUE, args[1], args[2], st)
       [] fn \in {"ER_postIncProp", "ER_postIncPropStrict"} /\ Len(args) = 2 ->
            CountProp("INC", FALSE, args[1], args[2], st)
       [] fn \in {"ER_postDecProp", "ER_postDecPropStrict"} /\ Len(args) = 2 ->
            CountProp("DEC", FALSE, args[1], args[2], st)
       [] OTHER -> Fail(st)

RECURSIVE Eval(_, _)
RECURSIVE Exec(_, _)
RECURSIVE EvalList(_, _)

\* The native function which returns an object.
MakerId == 6

\* A call of the function value f.  A native function returns a number of
\* its own, or the object 1, and records the call.
CallValue(f, args, st) ==
  IF f.t # "fun" THEN Fail(st)
  ELSE Res(TRUE, FALSE, IF f.n = MakerId THEN ObjV(1) ELSE NumV(10 + f.n),
           [st EXCEPT !.calls = Append(st.calls, [fn |-> f.n, args |-> args])])

\* The frame of a call: each parameter is bound to its argument, every other
\* local is undefined.
Frame(fn, args) ==
  LET ps == fn.scope.params
  IN [nm \in LocalNames |->
        IF \E i \in 1..Len(ps) : ps[i].name = nm /\ i <= Len(args)
        THEN args[CHOOSE i \in 1..Len(ps) : ps[i].name = nm]
        ELSE UndefV]

\* The result r of a function body, back in the caller whose state was st.
Returned(r, st) ==
  IF ~r.ok THEN Fail(st)
  ELSE Res(TRUE, FALSE, IF r.ret THEN r.v ELSE UndefV, [r.st EXCEPT !.loc = st.loc])

\* A call of a function literal: its parameters are bound in a new frame,
\* its body is run, and the caller's frame is restored.
CallFunLit(fn, args, st) ==
  IF ~fn.hasBody THEN Fail(st)
  ELSE Returned(Exec(fn.body, [st EXCEPT !.loc = Frame(fn, args)]), st)

\* The arguments of a call, left to right: v is the sequence of values.
EvalList(es, st) ==
  IF Len(es) = 0 THEN Res(TRUE, FALSE, << >>, st)
  ELSE LET h == Eval(es[1], st)
       IN IF ~h.ok THEN Fail(st)
          ELSE LET t == EvalList(Tail(es), h.st)
               IN IF ~t.ok THEN Fail(st)
                  ELSE Res(TRUE, FALSE, <<h.v>> \o t.v, t.st)

EvalVariableProxy(e, st) ==
  IF ~VarKnown(e.var) \/ LookupVar(e.var, st).t = "absent" THEN Fail(st)
  ELSE Res(TRUE, FALSE, LookupVar(e.var, st), st)

EvalProperty(e, st) ==
  LET o == Eval(e.obj, st)
      key == Eval(e.key, o.st)
  IN IF ~o.ok THEN Fail(st)
     ELSE IF ~key.ok \/ ~CanAccess(o.v, key.v) THEN Fail(st)
     ELSE Res(TRUE, FALSE, GetProp(o.v, key.v, key.st), key.st)

EvalCall(e, st) ==
  IF e.fn.k = "VP" /\ e.fn.dni
  THEN LET as == EvalList(e.args, st)
       IN IF ~as.ok THEN Fail(st) ELSE Hook(e.fn.name, as.v, as.st)
  ELSE IF e.fn.k = "Fun"
  THEN LET as == EvalList(e.args, st)
       IN IF ~as.ok THEN Fail(st) ELSE CallFunLit(e.fn, as.v, as.st)
  ELSE LET f == Eval(e.fn, st)
       IN IF ~f.ok THEN Fail(st)
          ELSE LET as == EvalList(e.args, f.st)
               IN IF ~as.ok THEN Fail(st) ELSE CallValue(f.v, as.v, as.st)

\* %InitializeVarGlobal(name, mode, value): the global gets the value r.
InitializedGlobal(r, name, st) ==
  IF ~r.ok \/ name \notin GlobalNames THEN Fail(st)
  ELSE Res(TRUE, FALSE, UndefV, [r.st EXCEPT !.glob[name] = r.v])

EvalCallRuntime(e, st) ==
  IF e.name = "%GetContextN" /\ Len(e.args) = 1 /\ e.args[1].k = "Smi"
  THEN Res(TRUE, FALSE, CtxV(e.args[1].n), st)
  ELSE IF e.name = "%InitializeVarGlobal" /\ Len(e.args) = 3 /\ e.args[1].k = "Str"
  THEN InitializedGlobal(Eval(e.args[3], st), e.args[1].s, st)
  ELSE IF e.name = "%InitializeVarGlobal" /\ Len(e.args) = 2
  THEN Res(TRUE, FALSE, UndefV, st)
  ELSE Fail(st)

EvalUnaryOperation(e, st) ==
  IF e.op = "DELETE" /\ e.e.k = "Property"
  THEN LET o == Eval(e.e.obj, st)
           key == Eval(e.e.key, o.st)
       IN IF ~o.ok THEN Fail(st)
          ELSE IF ~key.ok \/ ~CanAccess(o.v, key.v) THEN Fail(st)
          ELSE Res(TRUE, FALSE, BoolV(TRUE), PutProp(o.v, key.v, AbsentV, key.st))
  ELSE IF e.op = "DELETE" /\ e.e.k = "VP"
  THEN IF ~VarKnown(e.e.var) THEN Fail(st)
       ELSE IF e.e.var.loc \in {"parameter", "local", "context"}
       THEN Res(TRUE, FALSE, BoolV(FALSE), st)
       ELSE Res(TRUE, FALSE, BoolV(TRUE), StoreVar(e.e.var, AbsentV, st))
  ELSE IF e.op = "TYPEOF" /\ e.e.k = "VP"
  THEN IF ~VarKnown(e.e.var) THEN Fail(st)
       ELSE Res(TRUE, FALSE, StrV(TypeOf(LookupVar(e.e.var, st))), st)
  ELSE IF e.op = "TYPEOF"
  THEN LET r == Eval(e.e, st)
       IN IF ~r.ok THEN Fail(st) ELSE Res(TRUE, FALSE, StrV(TypeOf(r.v)), r.st)
  ELSE Fail(st)

EvalBinaryOperation(e, st) ==
  LET l == Eval(e.l, st)
      r == Eval(e.r, l.st)
  IN IF ~l.ok THEN Fail(st)
     ELSE IF ~r.ok \/ ~HasNumber(l.v) \/ ~HasNumber(r.v) \/ e.op \notin {"ADD", "SUB"}
     THEN Fail(st)
     ELSE Res(TRUE, FALSE, Arith(e.op, l.v, r.v), r.st)

EvalCountOperation(e, st) ==
  IF e.e.k = "VP"
  THEN IF ~VarKnown(e.e.var) \/ ~HasNumber(LookupVar(e.e.var, st)) THEN Fail(st)
       ELSE LET old == ToNumber(LookupVar(e.e.var, st))
                new == Arith(binary_op(e.op), old, NumV(1))
            IN Res(TRUE, FALSE, IF e.prefix THEN new ELSE old,
                   StoreVar(e.e.var, new, st))
  ELSE IF e.e.k = "Property"
  THEN LET o == Eval(e.e.obj, st)
           key == Eval(e.e.key, o.st)
       IN IF ~o.ok THEN Fail(st)
          ELSE IF ~key.ok THEN Fail(st)
          ELSE CountProp(e.op, e.prefix, o.v, key.v, key.st)
  ELSE Fail(st)

EvalAssignment(e, st) ==
  IF e.target.k = "VP"
  THEN IF ~VarKnown(e.target.var) THEN Fail(st)
       ELSE IF is_compound(e.op)
       THEN LET old == LookupVar(e.target.var, st)
                r == Eval(e.value, st)
            IN IF old.t = "absent" \/ ~HasNumber(old) THEN Fail(st)
               ELSE IF ~r.ok \/ ~HasNumber(r.v) THEN Fail(st)
               ELSE LET new == Arith(binary_op(e.op), old, r.v)
                    IN Res(TRUE, FALSE, new, StoreVar(e.target.var, new, r.st))
       ELSE LET r == Eval(e.value, st)
            IN IF ~r.ok THEN Fail(st)
               ELSE Res(TRUE, FALSE, r.v, StoreVar(e.target.var, r.v, r.st))
  ELSE IF e.target.k = "Property"
  THEN LET o == Eval(e.target.obj, st)
           key == Eval(e.target.key, o.st)
       IN IF ~o.ok THEN Fail(st)
          ELSE IF ~key.ok \/ ~CanAccess(o.v, key.v) THEN Fail(st)
          ELSE LET old == GetProp(o.v, key.v, key.st)
                   r == Eval(e.value, key.st)
               IN IF ~r.ok THEN Fail(st)
                  ELSE IF ~is_compound(e.op)
                  THEN Res(TRUE, FALSE, r.v, PutProp(o.v, key.v, r.v, r.st))
                  ELSE IF ~HasNumber(old) \/ ~HasNumber(r.v) THEN Fail(st)
                  ELSE LET new == Arith(binary_op(e.op), old, r.v)
                       IN Res(TRUE, FALSE, new, PutProp(o.v, key.v, new, r.st))
  ELSE Fail(st)

\* A property call o.f(a0..an): the function is looked up before the
\* arguments are evaluated.
EvalPropertyCall(e, st) ==
  LET f == EvalProperty(e.fn, st)
  IN IF ~f.ok THEN Fail(st)
     ELSE LET as == EvalList(e.args, f.st)
          IN IF ~as.ok THEN Fail(st) ELSE CallValue(f.v, as.v, as.st)

Eval(e, st) ==
  CASE e.k = "Str" -> Res(TRUE, FALSE, StrV(e.s), st)
    [] e.k \in {"Smi", "Num"} -> Res(TRUE, FALSE, NumV(e.n), st)
    [] e.k = "Undef" -> Res(TRUE, FALSE, UndefV, st)
    [] e.k = "Null" -> Res(TRUE, FALSE, NullV, st)
    [] e.k = "VP" -> EvalVariableProxy(e, st)
    [] e.k = "Property" -> EvalProperty(e, st)
    [] e.k = "Call" /\ e.fn.k = "Property" -> EvalPropertyCall(e, st)
    [] e.k = "Call" /\ e.fn.k # "Property" -> EvalCall(e, st)
    [] e.k = "CallRuntime" -> EvalCallRuntime(e, st)
    [] e.k = "Unary" -> EvalUnaryOperation(e, st)
    [] e.k = "Binary" -> EvalBinaryOperation(e, st)
    [] e.k = "Count" -> EvalCountOperation(e, st)
    [] e.k = "Assign" -> EvalAssignment(e, st)
    [] e.k = "Fun" -> Res(TRUE, FALSE, ClosureV(e.lid), st)
    [] OTHER -> Fail(st)

\* The completion of a statement whose expression evaluated to r.
Completed(r, ret, st) ==
  IF r.ok THEN Res(TRUE, ret, IF ret THEN r.v ELSE UndefV, r.st) ELSE Fail(st)

\* One statement.
ExecStatement(s1, st) ==
  CASE s1.k = "ExprStmt" -> Completed(Eval(s1.e, st), FALSE, st)
    [] s1.k = "Return" -> Completed(Eval(s1.e, st), TRUE, st)
    [] s1.k = "Block" -> Exec(s1.stmts, st)
    [] s1.k = "Empty" -> Res(TRUE, FALSE, UndefV, st)
    [] OTHER -> Fail(st)

\* The statements after one which completed with h.
ExecRest(h, rest, st) ==
  IF ~h.ok THEN Fail(st)
  ELSE IF h.ret THEN h
  ELSE Exec(rest, h.st)

\* A statement list: ret tells that a return statement has been executed.
Exec(stmts, st) ==
  IF Len(stmts) = 0 THEN Res(TRUE, FALSE, UndefV, st)
  ELSE ExecRest(ExecStatement(stmts[1], st), Tail(stmts), st)

(***************************************************************************)
(* The input programs.                                                     *)
(***************************************************************************)
\* Variables as the resolver has bound them.
gVar == Var("g", "unallocated", 0, NoScope)
uVar == Var("u", "null", NoScope, NoScope)
lVar == Var("l", "lookup", 0, NoScope)
oVar == Var("o", "unallocated", 0, NoScope)
fVar == Var("f", "unallocated", 0, NoScope)
mkVar == Var("mk", "unallocated", 0, NoScope)
evalVar == Var("eval", "unallocated", 0, NoScope)
cVar == Var("c", "context", 1, 0)
dVar == Var("d", "context", 1, 1)
aVar == Var("a", "local", NoScope, 0)
bVar == Var("b", "parameter", NoScope, 0)
iVar == Var("i", "local", NoScope, 1)

\* A compiler-introduced reference: marked do-not-instrument.
InternalProxy(var) == [VariableProxy(var) EXCEPT !.dni = TRUE]

IdentTargets ==
  {VariableProxy(gVar), VariableProxy(uVar), VariableProxy(lVar),
   VariableProxy(cVar), VariableProxy(aVar)}

ObjExprs == {VariableProxy(oVar), VariableProxy(bVar), VariableProxy(dVar)}

KeyExprs == {StringLiteral("p"), SmiLiteral(0), VariableProxy(iVar), VariableProxy(gVar)}

PropTargets == {Property(o, key) : o \in ObjExprs, key \in KeyExprs}

\* Sub-expressions with an effect of their own, or instrumented themselves.
NestExprs ==
  {CountOperation("INC", FALSE, VariableProxy(aVar)),
   Assignment("ASSIGN", Property(VariableProxy(oVar), StringLiteral("p")), SmiLiteral(2)),
   Assignment("ASSIGN", VariableProxy(gVar), SmiLiteral(0))}

ValueExprs == {SmiLiteral(1), VariableProxy(aVar), VariableProxy(gVar)} \cup NestExprs

ArgExprs == {SmiLiteral(1), VariableProxy(gVar),
             CountOperation("INC", FALSE, VariableProxy(aVar))}

RECURSIVE ArgLists(_)
ArgLists(n) ==
  IF n = 0 THEN {<< >>}
  ELSE ArgLists(n - 1)
       \cup {Append(l, x) : l \in {m \in ArgLists(n - 1) : Len(m) = n - 1}, x \in ArgExprs}

\* A function expression written in scope sc.
InnerFun(sc) ==
  FunctionLiteral("", InputScope(FunScopeOf(sc), << >>), << >>,
                  <<ReturnStatement(VariableProxy(cVar))>>, 0, 3)

ReadInputs ==
  IdentTargets
  \cup {InternalProxy(gVar), InternalProxy(cVar), VariableProxy(bVar)}
  \cup PropTargets
  \cup {Property(Property(VariableProxy(oVar), StringLiteral("r")), key) :
          key \in {StringLiteral("p"), VariableProxy(iVar)}}
  \cup {Property(VariableProxy(bVar), CountOperation("INC", FALSE, VariableProxy(aVar)))}

CallInputs ==
  {Call(Property(o, key), args) :
     o \in {VariableProxy(oVar), VariableProxy(bVar)},
     key \in {StringLiteral("q"), VariableProxy(aVar), VariableProxy(gVar)},
     args \in ArgLists(MaxArgs)}
  \cup {Call(Property(VariableProxy(oVar), StringLiteral("q")),
             <<Assignment("ASSIGN", Property(VariableProxy(oVar), StringLiteral("q")),
                          Property(VariableProxy(oVar), SmiLiteral(1)))>>)}
  \cup {Call(fn, args) : fn \in {VariableProxy(fVar), VariableProxy(evalVar)},
                         args \in ArgLists(MaxArgs)}

UnaryInputs ==
  {UnaryOperation("DELETE", p) : p \in PropTargets}
  \cup {UnaryOperation("DELETE", v) : v \in IdentTargets \ {VariableProxy(uVar)}}
  \cup {UnaryOperation("TYPEOF", v) : v \in IdentTargets}
  \cup {UnaryOperation("TYPEOF", Property(VariableProxy(oVar), StringLiteral("p")))}

CountInputs ==
  {CountOperation(op, prefix, t) :
     op \in {"INC", "DEC"}, prefix \in BOOLEAN, t \in IdentTargets \cup PropTargets}

\* Object expressions with an effect: a call returning an object, an
\* assignment of an object.
EffectObjExprs ==
  {Call(VariableProxy(mkVar), << >>),
   Assignment("ASSIGN", VariableProxy(gVar), VariableProxy(oVar))}

AssignInputs(sc) ==
  {Assignment(op, t, v) :
     op \in {"ASSIGN", "ASSIGN_ADD"}, t \in IdentTargets \cup PropTargets,
     v \in ValueExprs}
  \cup {Assignment("ASSIGN", t, InnerFun(sc)) :
          t \in {VariableProxy(gVar), VariableProxy(cVar), VariableProxy(aVar),
                 Property(VariableProxy(oVar), StringLiteral("p")),
                 Property(VariableProxy(oVar), VariableProxy(iVar))}}
  \cup {Assignment("ASSIGN_SUB", t, SmiLiteral(1)) :
          t \in {VariableProxy(gVar), Property(VariableProxy(bVar), StringLiteral("p"))}}
  \cup {BinaryOperation("ADD", VariableProxy(gVar), VariableProxy(cVar))}
  \cup {Assignment("ASSIGN", Property(obj, StringLiteral("p")),
                    BinaryOperation("ADD", Property(obj, StringLiteral("p")),
                                    SmiLiteral(1))) : obj \in EffectObjExprs}
  \cup {Assignment("ASSIGN_ADD", Property(obj, StringLiteral("p")), SmiLiteral(1)) :
          obj \in EffectObjExprs}

\* The initializations of the global g: var g; at a place where the value
\* is assigned separately (two arguments), var g = value; (three).
InitInputs(sc) ==
  {CallRuntime("%InitializeVarGlobal", <<StringLiteral("g"), SmiLiteral(0)>>)}
  \cup {CallRuntime("%InitializeVarGlobal", <<StringLiteral("g"), SmiLiteral(0), v>>) :
          v \in {SmiLiteral(1), VariableProxy(lVar), InnerFun(sc)}}

ExprInputs(sc) ==
  ReadInputs \cup CallInputs \cup UnaryInputs \cup CountInputs \cup AssignInputs(sc)
  \cup InitInputs(sc)

\* The statements of the function bodies, written in the function scope fs.
BodyStmts(fs) ==
  {ExpressionStatement(Assignment("ASSIGN", VariableProxy(gVar), SmiLiteral(1))),
   ReturnStatement(VariableProxy(cVar)),
   ReturnStatement(Property(VariableProxy(oVar), StringLiteral("p"))),
   Block(NoScope, << >>, <<ReturnStatement(SmiLiteral(1))>>),
   IfStatement(VariableProxy(gVar), ReturnStatement(VariableProxy(aVar)),
               EmptyStatement)}
  \cup (IF HasWithScope(fs)
        THEN {WithStatement(WithScopeOf(fs), VariableProxy(dVar),
                            ExpressionStatement(VariableProxy(cVar)))}
        ELSE {})

RECURSIVE Bodies(_, _)
Bodies(n, fs) ==
  IF n = 0 THEN {<< >>}
  ELSE Bodies(n - 1, fs)
       \cup {Append(l, x) : l \in {m \in Bodies(n - 1, fs) : Len(m) = n - 1},
                            x \in BodyStmts(fs)}

\* The declarations of a function scope fs: a variable and two functions.
h1Var == Var("h1", "local", NoScope, 2)
h2Var == Var("h2", "local", NoScope, 3)

ScopeDecls(fs) ==
  <<VariableDeclaration(VariableProxy(aVar)),
    FunctionDeclaration(VariableProxy(h1Var),
                        FunctionLiteral("h1", InputScope(FunScopeOf(fs), << >>), << >>,
                                        <<ReturnStatement(SmiLiteral(1))>>, 0, 4)),
    FunctionDeclaration(VariableProxy(h2Var),
                        FunctionLiteral("h2", InputScope(FunScopeOf(fs), << >>), << >>,
                                        << >>, 0, 5))>>

\* The function literals written in scope sc: anonymous or named, with or
\* without declarations, and one whose body has not been parsed (a lazily
\* compiled function has no body).
FunInputs(sc) ==
  LET fs == FunScopeOf(sc)
  IN {FunctionLiteral(nd[1], InputScope(fs, << >>), nd[2], body, 0, 2) :
        nd \in {<<"", << >> >>, <<"h", << >> >>, <<"h", ScopeDecls(fs)>>},
        body \in Bodies(MaxStmts, fs)}
     \cup {[FunctionLiteral("h", InputScope(fs, << >>), << >>, << >>, 0, 2)
              EXCEPT !.hasBody = FALSE]}

StartScopes == {1, 3, 4}

\* The values the variables and the properties hold at the start.
StartVals == {NumV(n) : n \in 0..MaxVal} \cup {UndefV}

MkStore(x, y) ==
  [glob |-> [nm \in GlobalNames |->
               CASE nm = "o" -> ObjV(1)
                 [] nm = "f" -> FunV(3)
                 [] nm = "mk" -> FunV(MakerId)
                 [] OTHER -> x],
   ctxv |-> [nm \in ContextNames |-> IF nm = "d" THEN ObjV(2) ELSE x],
   loc |-> [nm \in LocalNames |->
              CASE nm = "a" -> x
                [] nm = "b" -> ObjV(1)
                [] nm = "i" -> NumV(0)
                [] OTHER -> UndefV],
   heap |-> [id \in ObjIds |->
               [key \in Keys |->
                  CASE key = "p" -> y
                    [] key = "0" -> y
                    [] key = "q" -> FunV(id)
                    [] key = "1" -> FunV(id + 3)
                    [] key = "r" /\ id = 1 -> ObjV(2)
                    [] OTHER -> AbsentV]],
   log |-> << >>,
   calls |-> << >>]

Stores == {MkStore(x, y) : x \in StartVals, y \in StartVals}

\* The stores a function literal is called in.
FunStores == {MkStore(x, x) : x \in StartVals}

StoresOf(n) == IF n.k = "Fun" THEN FunStores ELSE Stores

\* The compilation info: without a shared function info and a script, or
\* with both; global_scope holds the instrumentation functions which have
\* a binding in the global scope of the program.
CompilationInfo(shared, script, globals) ==
  [shared |-> shared, script |-> script, global_scope |-> globals]
NoInfo == CompilationInfo(0, 0 - 1, InstrumentationFunctions)
Infos == {NoInfo, CompilationInfo(7, 5, InstrumentationFunctions)}

\* Global scopes which lack bindings of instrumentation functions.
CtorInfos ==
  {CompilationInfo(0, 0 - 1, g) :
     g \in {InstrumentationFunctions, InstrumentationFunctions \ {"_ER_read"},
            {"_ER_enterFunction", "_ER_exitFunction"}, {}}}

Inputs(sc) == ExprInputs(sc) \cup FunInputs(sc)

(***************************************************************************)
(* The state machine: a parsed and resolved tree is rewritten, and the     *)
(* original and the rewritten tree are then run from the same store.       *)
(***************************************************************************)
Run(n, st) ==
  IF n.k = "Fun" THEN CallFunLit(n, << >>, st) ELSE Eval(n, st)

(***************************************************************************)
(* AstSlotCounter: the walk over the rewritten tree which numbers the      *)
(* materialized literals and the feedback slots of every function anew.    *)
(* A node is named by its path, the positions taken from the root through  *)
(* the lists of traversed children; the arena holds the nodes of the       *)
(* rewritten tree by their paths.  The counter holds the chain of          *)
(* FunctionState frames (state_, the current one first, the static guard   *)
(* last) and what the walk has written into the nodes: the first feedback  *)
(* slot, the literal index, and the literal count and the AstProperties    *)
(* of the function literals.                                               *)
(***************************************************************************)
kInvalidFeedbackSlot == 0 - 1
kLiteralsPrefixSize == 1

\* What a node holds from the parser's numbering before the walk.
Stale == 7

FunctionState(nodes, literals, slots) ==
  [node_count |-> nodes, materialized_literal_count |-> literals,
   feedback_slot_count |-> slots]

\* A frame as its constructor leaves it.
NewFunctionState == FunctionState(0, kLiteralsPrefixSize, 0)

AstProperties(nodes, slots) == [node_count |-> nodes, feedback_slots |-> slots]

NoCounter == [state_ |-> << >>, slot |-> << >>, literal_index |-> << >>,
              literal_count |-> << >>, props |-> << >>]

\* The nodes a Visit method traverses, in its order.
Traversed(n) ==
  CASE n.k = "VarDecl" -> <<n.proxy>>
    [] n.k = "FunDecl" -> <<n.proxy, n.fun>>
    [] n.k = "Block" -> (IF n.bscope # NoScope THEN n.decls ELSE << >>) \o n.stmts
    [] n.k \in {"ExprStmt", "Return", "Unary", "Count", "Yield"} -> <<n.e>>
    [] n.k = "ForIn" -> <<n.each, n.subject, n.body>>
    [] n.k = "ForOf" -> <<n.each, n.subject, n.body, n.assign_iterator,
                          n.next_result, n.result_done, n.assign_each>>
    [] n.k = "With" -> <<n.e, n.stmt>>
    [] n.k = "If" -> <<n.cond, n.then, n.else>>
    [] n.k \in {"ObjLit", "ArrLit"} -> n.values
    [] n.k = "Property" -> <<n.obj, n.key>>
    [] n.k = "Call" -> <<n.fn>> \o n.args
    [] n.k = "CallRuntime" -> n.args
    [] n.k = "Binary" -> <<n.l, n.r>>
    [] n.k = "Assign" -> IF is_compound(n.op)
                         THEN <<BinaryOperation(binary_op(n.op), n.target, n.value)>>
                         ELSE <<n.target, n.value>>
    [] n.k = "Fun" -> IF n.hasBody THEN n.decls \o n.body ELSE << >>
    [] OTHER -> << >>

RECURSIVE NodeAt(_, _)
NodeAt(n, p) == IF p = << >> THEN n ELSE NodeAt(Traversed(n)[Head(p)], Tail(p))

\* The paths of the nodes of the tree n, which is at path p itself.
RECURSIVE Paths(_, _)
Paths(n, p) ==
  {p} \cup UNION {Paths(Traversed(n)[i], Append(p, i)) : i \in DOMAIN Traversed(n)}

\* The nodes of a tree by their paths.
Arena(tree) == [p \in Paths(tree, << >>) |-> NodeAt(tree, p)]

IsMaterializedLiteral(n) == n.k \in {"ObjLit", "ArrLit", "RegExp"}

\* FeedbackSlotInterface::ComputeFeedbackSlotCount of the node kinds: a call
\* and a for-in statement need one slot; a variable and a property load
\* need one, and a delegating yield three, when the loads use the vector.
ComputeFeedbackSlotCount(nd) ==
  CASE nd.k \in {"Call", "ForIn"} -> 1
    [] nd.k \in {"VP", "Property"} -> IF FLAG_vector_ics THEN 1 ELSE 0
    [] nd.k = "Yield" -> IF FLAG_vector_ics /\ nd.kind = "DELEGATING" THEN 3 ELSE 0
    [] OTHER -> 0

add_node(c) == [c EXCEPT !.state_[1].node_count = @ + 1]

add_materialized_literal(c, lit) ==
  [c EXCEPT !.literal_index[lit] = c.state_[1].materialized_literal_count,
            !.state_[1].materialized_literal_count = @ + 1]

\* A variant which takes one slot for a node whatever it needs.
add_feedback_slot_one(c, p, nd) ==
  IF ComputeFeedbackSlotCount(nd) > 0
  THEN [c EXCEPT !.slot[p] = c.state_[1].feedback_slot_count,
                 !.state_[1].feedback_slot_count = @ + 1]
  ELSE c

add_feedback_slot(c, p, nd) ==
  LET cnt == ComputeFeedbackSlotCount(nd)
  IN IF cnt > 0
     THEN [c EXCEPT !.slot[p] = c.state_[1].feedback_slot_count,
                    !.state_[1].feedback_slot_count = @ + cnt]
     ELSE c

\* begin_function: a fresh frame becomes the current one.
begin_function(c) == [c EXCEPT !.state_ = <<NewFunctionState>> \o @]

\* end_function: the enclosing frame is the current one again.
end_function(c) == [c EXCEPT !.state_ = Tail(@)]

\* A variable made without a feedback slot gets none.
VisitVariableProxy(c, p, vp) ==
  IF c.slot[p] # kInvalidFeedbackSlot THEN add_feedback_slot(add_node(c), p, vp)
  ELSE add_node(c)

\* What the Visit method of a node other than a function literal does
\* before it traverses the children.
VisitNode(c, p, nd) ==
  CASE IsMaterializedLiteral(nd) -> add_materialized_literal(add_node(c), p)
    [] nd.k \in {"ForIn", "Property", "Call", "CallRuntime", "Yield"} ->
         add_feedback_slot(add_node(c), p, nd)
    [] nd.k = "VP" -> VisitVariableProxy(c, p, nd)
    [] OTHER -> add_node(c)

\* A variant whose frame goes on from the counters of the enclosing frame.
EnterFunctionLiteral_inherit(c, fn) ==
  IF ~fn.hasBody THEN add_node(c)
  ELSE [c EXCEPT !.state_ = <<[@[1] EXCEPT !.node_count = @ + 1]>>
                            \o [@ EXCEPT ![1].node_count = @ + 1]]

\* VisitFunctionLiteral up to the traversal of the function's scope and
\* body: a function without a body is a node of the enclosing function and
\* nothing more.
EnterFunctionLiteral(c, fn) ==
  IF ~fn.hasBody THEN add_node(c) ELSE begin_function(add_node(c))

\* A variant which adds the slots of the frame to the properties the
\* function literal has.
LeaveFunctionLiteral_increase(c, p) ==
  LET state == c.state_[1]
      props == AstProperties(c.props[p].node_count,
                             c.props[p].feedback_slots + state.feedback_slot_count)
  IN end_function(
       [c EXCEPT !.literal_count[p] =
                    state.materialized_literal_count - kLiteralsPrefixSize,
                 !.props[p] = props])

\* VisitFunctionLiteral after the traversal: the totals of the frame go to
\* the function literal, in properties made anew.
LeaveFunctionLiteral(c, p) ==
  LET state == c.state_[1]
      props == AstProperties(c.props[p].node_count, state.feedback_slot_count)
  IN end_function(
       [c EXCEPT !.literal_count[p] =
                    state.materialized_literal_count - kLiteralsPrefixSize,
                 !.props[p] = props])

VisitItem(p) == [op |-> "visit", path |-> p]
EndItem(p) == [op |-> "end", path |-> p]

\* traverse: the children are visited next, in their order.
TraverseItems(p, nd) == [i \in DOMAIN Traversed(nd) |-> VisitItem(Append(p, i))]

\* The counter before the first walk over the tree: the static guard frame
\* is the current one; the variables named in `numbered' and the other
\* nodes of the parser have a feedback slot from the parser's numbering, a
\* node the rewriter has made has none.
ParserMade(nd, numbered) ==
  CASE nd.k = "VP" -> ~nd.dni /\ nd.name \in numbered
    [] nd.k = "Call" -> ~(nd.fn.k = "VP" /\ nd.fn.dni) /\ nd.fn.k # "Fun"
    [] nd.k \in {"Property", "ForIn", "Yield"} -> TRUE
    [] OTHER -> FALSE

\* The number of nodes directly in the function literal fn: those of the
\* functions nested in it are not among them.
RECURSIVE NodesOf(_)
RECURSIVE NodesOfSeq(_)
NodesOf(n) == 1 + (IF n.k = "Fun" THEN 0 ELSE NodesOfSeq(Traversed(n)))
NodesOfSeq(ns) == IF ns = << >> THEN 0 ELSE NodesOf(Head(ns)) + NodesOfSeq(Tail(ns))
NodesIn(fn) == NodesOfSeq(Traversed(fn))

\* The function literals of a tree.
RECURSIVE FunctionLiterals(_)
FunctionLiterals(n) ==
  (IF n.k = "Fun" THEN {n} ELSE {})
  \cup UNION {FunctionLiterals(Traversed(n)[i]) : i \in DOMAIN Traversed(n)}

\* The properties a function literal has before the walk: a function the
\* parser has made has the node count of the parsed function, a function
\* the rewriter has made has empty properties.
OldProperties(orig, fn) ==
  IF fn.scope.hack THEN AstProperties(0, 0)
  ELSE AstProperties(NodesIn(CHOOSE g \in FunctionLiterals(orig) : g.lid = fn.lid),
                     Stale)

StartCounter(orig, tree, numbered) ==
  LET ps == Paths(tree, << >>)
  IN [state_ |-> <<NewFunctionState>>,
      slot |-> [p \in ps |-> IF ParserMade(NodeAt(tree, p), numbered)
                             THEN Stale ELSE kInvalidFeedbackSlot],
      literal_index |-> [p \in {q \in ps : IsMaterializedLiteral(NodeAt(tree, q))}
                           |-> Stale],
      literal_count |-> [p \in {q \in ps : NodeAt(tree, q).k = "Fun"}
                           |-> IF NodeAt(tree, p).scope.hack THEN 0 ELSE Stale],
      props |-> [p \in {q \in ps : NodeAt(tree, q).k = "Fun"}
                   |-> OldProperties(orig, NodeAt(tree, p))]]

Init ==
  /\ pc = "parsed"
  /\ scope0 \in StartScopes
  /\ node \in Inputs(scope0)
  /\ info \in Infos
  /\ instr_fn_ = AstRewriterImpl(info)
  /\ env \in StoresOf(node)
  /\ out = node
  /\ run0 = Fail(env)
  /\ run1 = Fail(env)
  /\ registers = StartRegisters(scope0)
  /\ FLAG_vector_ics = FALSE
  /\ arena = << >>
  /\ counter = NoCounter
  /\ work = << >>
  /\ pass = 0
  /\ walk1 = NoCounter

\* EventRacerRewriter: node->Accept(rewriter)
Rewrite ==
  /\ pc = "parsed"
  /\ out' = Accept(node, scope0)
  /\ registers' = RegistersAfter(node, scope0).regs
  /\ pc' = "rewritten"
  /\ UNCHANGED <<node, scope0, info, instr_fn_, env, run0, run1>>
  /\ UNCHANGED cvars

\* The rule of a runtime call reads behind the end of a list of two
\* arguments: the pass may end in a fault there.
RewriteFault ==
  /\ pc = "parsed"
  /\ ReadsPastArguments(node)
  /\ pc' = "crashed"
  /\ UNCHANGED <<node, scope0, info, instr_fn_, out, env, run0, run1, registers>>
  /\ UNCHANGED cvars

\* The original and the instrumented code are run.
Execute ==
  /\ pc = "rewritten"
  /\ run0' = Run(node, env)
  /\ run1' = Run(out, env)
  /\ pc' = "executed"
  /\ UNCHANGED <<node, scope0, info, instr_fn_, env, out, registers>>
  /\ UNCHANGED cvars

Next == Rewrite \/ RewriteFault \/ Execute

Spec == Init /\ [][Next]_vars

\* The pass constructed for programs whose global scope lacks bindings of
\* instrumentation functions.
CtorInit ==
  /\ pc = "parsed"
  /\ scope0 \in StartScopes
  /\ node \in ReadInputs \cup AssignInputs(scope0) \cup InitInputs(scope0)
  /\ info \in CtorInfos
  /\ instr_fn_ = AstRewriterImpl(info)
  /\ env \in StoresOf(node)
  /\ out = node
  /\ run0 = Fail(env)
  /\ run1 = Fail(env)
  /\ registers = StartRegisters(scope0)
  /\ FLAG_vector_ics = FALSE
  /\ arena = << >>
  /\ counter = NoCounter
  /\ work = << >>
  /\ pass = 0
  /\ walk1 = NoCounter

CtorSpec == CtorInit /\ [][Next]_vars

(***************************************************************************)
(* The slot counter after the rewriter: the rewritten tree of a function   *)
(* is walked twice.                                                        *)
(***************************************************************************)
iteratorVar == Var(".iterator", "local", NoScope, 4)
resultVar == Var(".result", "local", NoScope, 5)

\* A function expression with a literal and a call of its own.
LiteralFun(fs) ==
  FunctionLiteral("", InputScope(FunScopeOf(fs), << >>), << >>,
                  <<ExpressionStatement(ArrayLiteral(<<SmiLiteral(1)>>)),
                    ReturnStatement(Call(VariableProxy(fVar), << >>))>>, 0, 3)

\* for (a of o) f(a), with the four expressions the parser makes for the
\* iteration.
ForOfInput ==
  ForOfStatement(
    VariableProxy(aVar), VariableProxy(oVar),
    ExpressionStatement(Call(VariableProxy(fVar), <<VariableProxy(aVar)>>)),
    Assignment("ASSIGN", InternalProxy(iteratorVar),
               Call(Property(VariableProxy(oVar), StringLiteral("iterator")), << >>)),
    Assignment("ASSIGN", InternalProxy(resultVar),
               Call(Property(InternalProxy(iteratorVar), StringLiteral("next")), << >>)),
    Property(InternalProxy(resultVar), StringLiteral("done")),
    Assignment("ASSIGN", VariableProxy(aVar),
               Property(InternalProxy(resultVar), StringLiteral("value"))))

SlotStmts(fs) ==
  <<ExpressionStatement(ObjectLiteral(<<SmiLiteral(1), VariableProxy(gVar)>>)),
   ExpressionStatement(ArrayLiteral(<<RegExpLiteral("x")>>)),
   ExpressionStatement(Assignment("ASSIGN", VariableProxy(aVar), LiteralFun(fs))),
   ForInStatement(VariableProxy(aVar), VariableProxy(oVar),
                  ExpressionStatement(ObjectLiteral(<< >>))),
   ForOfInput,
   ExpressionStatement(Yield("DELEGATING", VariableProxy(aVar))),
   ReturnStatement(Property(VariableProxy(oVar), StringLiteral("p"))),
   ExpressionStatement(Assignment("ASSIGN_ADD", VariableProxy(aVar),
                                  Call(VariableProxy(fVar), << >>)))>>

\* The bodies of up to n of these statements, in this order.
RECURSIVE Selections(_, _)
Selections(n, from) ==
  IF n = 0 THEN {<< >>}
  ELSE {<< >>}
       \cup UNION {{<<i>> \o l : l \in Selections(n - 1, {j \in from : j > i})} :
                     i \in from}

SlotBodies(n, fs) ==
  {[i \in DOMAIN l |-> SlotStmts(fs)[l[i]]] : l \in Selections(n, DOMAIN SlotStmts(fs))}

\* The declarations of a function scope: a variable, a function and a
\* function which has not been parsed.
SlotDecls(fs) ==
  <<VariableDeclaration(VariableProxy(aVar)),
    FunctionDeclaration(VariableProxy(h1Var), LiteralFun(fs)),
    FunctionDeclaration(VariableProxy(h2Var),
                        [FunctionLiteral("h2", InputScope(FunScopeOf(fs), << >>),
                                         << >>, << >>, 0, 5)
                           EXCEPT !.hasBody = FALSE])>>

SlotInputs(sc) ==
  LET fs == FunScopeOf(sc)
  IN {FunctionLiteral("h", InputScope(fs, << >>), dcls, body, 0, 2) :
        dcls \in {<< >>, SlotDecls(fs)}, body \in SlotBodies(MaxStmts, fs)}

\* The variables whose proxies the parser has numbered.
Numberings == {{}, {"a", "o"}}

SlotInit ==
  /\ pc = "rewritten"
  /\ scope0 = 1
  /\ node \in SlotInputs(scope0)
  /\ info = NoInfo
  /\ instr_fn_ = AstRewriterImpl(info)
  /\ env = MkStore(UndefV, UndefV)
  /\ out = Accept(node, scope0)
  /\ run0 = Fail(env)
  /\ run1 = Fail(env)
  /\ registers = RegistersAfter(node, scope0).regs
  /\ FLAG_vector_ics \in BOOLEAN
  /\ arena = Arena(out)
  /\ \E numbered \in Numberings :
       /\ FLAG_vector_ics \/ numbered = {}
       /\ counter = StartCounter(node, out, numbered)
  /\ work = << >>
  /\ pass = 0
  /\ walk1 = NoCounter

rvars == <<node, scope0, info, instr_fn_, out, env, run0, run1, registers, FLAG_vector_ics, arena>>

\* AstSlotCounter: the walk starts at the root of the tree.
StartWalk ==
  /\ pc \in {"rewritten", "counted"}
  /\ pass < 2
  /\ pc' = "counting"
  /\ pass' = pass + 1
  /\ work' = <<VisitItem(<< >>)>>
  /\ UNCHANGED <<counter, walk1>>
  /\ UNCHANGED rvars

\* A Visit method of a node other than a function literal.
Visit ==
  /\ pc = "counting"
  /\ work # << >>
  /\ Head(work).op = "visit"
  /\ LET p == Head(work).path
         nd == arena[p]
     IN /\ nd.k # "Fun"
        /\ counter' = VisitNode(counter, p, nd)
        /\ work' = TraverseItems(p, nd) \o Tail(work)
  /\ UNCHANGED <<pc, pass, walk1>>
  /\ UNCHANGED rvars

\* VisitFunctionLiteral, up to the traversal.
VisitFunctionLiteral ==
  /\ pc = "counting"
  /\ work # << >>
  /\ Head(work).op = "visit"
  /\ LET p == Head(work).path
         fn == arena[p]
     IN /\ fn.k = "Fun"
        /\ counter' = EnterFunctionLiteral(counter, fn)
        /\ work' = TraverseItems(p, fn)
                   \o (IF fn.hasBody THEN <<EndItem(p)>> ELSE << >>) \o Tail(work)
  /\ UNCHANGED <<pc, pass, walk1>>
  /\ UNCHANGED rvars

\* VisitFunctionLiteral, after the traversal.
EndFunctionLiteral ==
  /\ pc = "counting"
  /\ work # << >>
  /\ Head(work).op = "end"
  /\ counter' = LeaveFunctionLiteral(counter, Head(work).path)
  /\ work' = Tail(work)
  /\ UNCHANGED <<pc, pass, walk1>>
  /\ UNCHANGED rvars

\* The walk is over; what the first walk has written is kept for comparison.
EndWalk ==
  /\ pc = "counting"
  /\ work = << >>
  /\ pc' = "counted"
  /\ walk1' = IF pass = 1 THEN counter ELSE walk1
  /\ UNCHANGED <<counter, work, pass>>
  /\ UNCHANGED rvars

SlotNext == StartWalk \/ Visit \/ VisitFunctionLiteral \/ EndFunctionLiteral \/ EndWalk

SlotSpec == SlotInit /\ [][SlotNext]_vars

(***************************************************************************)
(* Properties of the rewrite.  The operators below read trees: the nodes   *)
(* directly below a node, the calls of instrumentation functions in a      *)
(* tree, the occurrences of a tree in another.                             *)
(***************************************************************************)
Children(n) ==
  CASE n.k = "Property" -> <<n.obj, n.key>>
    [] n.k = "Call" -> <<n.fn>> \o n.args
    [] n.k = "CallRuntime" -> n.args
    [] n.k \in {"Unary", "Count", "ExprStmt", "Return"} -> <<n.e>>
    [] n.k = "Binary" -> <<n.l, n.r>>
    [] n.k = "Assign" -> <<n.target, n.value>>
    [] n.k = "Block" -> n.decls \o n.stmts
    [] n.k = "If" -> <<n.cond, n.then, n.else>>
    [] n.k = "With" -> <<n.e, n.stmt>>
    [] n.k = "FunDecl" -> <<n.fun>>
    [] n.k = "Fun" -> n.decls \o n.body
    [] n.k \in {"ObjLit", "ArrLit"} -> n.values
    [] n.k = "Yield" -> <<n.e>>
    [] n.k = "ForIn" -> <<n.each, n.subject, n.body>>
    [] n.k = "ForOf" -> <<n.each, n.subject, n.body, n.assign_iterator,
                          n.next_result, n.result_done, n.assign_each>>
    [] OTHER -> << >>

IsHookCall(n) == n.k = "Call" /\ n.fn.k = "VP" /\ n.fn.dni

IsExitCall(n) == IsHookCall(n) /\ n.fn.name = "_ER_exitFunction"

RECURSIVE HookCount(_)
RECURSIVE HookCountSeq(_)
HookCount(n) == (IF IsHookCall(n) THEN 1 ELSE 0) + HookCountSeq(Children(n))
HookCountSeq(ns) ==
  IF Len(ns) = 0 THEN 0 ELSE HookCount(ns[1]) + HookCountSeq(Tail(ns))

\* The number of occurrences of the tree x in the tree n.
RECURSIVE Occurrences(_, _)
RECURSIVE OccurrencesSeq(_, _)
Occurrences(x, n) == (IF n = x THEN 1 ELSE 0) + OccurrencesSeq(x, Children(n))
OccurrencesSeq(x, ns) ==
  IF Len(ns) = 0 THEN 0 ELSE Occurrences(x, ns[1]) + OccurrencesSeq(x, Tail(ns))

\* The constructs rewritten with a wrapper: property read, property method
\* call, property delete, property increment and decrement, property
\* assignment.
IsWrapped(n) ==
  \/ n.k = "Property"
  \/ n.k = "Call" /\ n.fn.k = "Property"
  \/ n.k = "Unary" /\ n.op = "DELETE" /\ n.e.k = "Property"
  \/ n.k = "Count" /\ n.e.k = "Property"
  \/ n.k = "Assign" /\ n.target.k = "Property"

\* The accesses of potentially shared identifiers: read, typeof, delete,
\* increment and decrement, assignment.
IsSharedAccess(n) ==
  \/ n.k = "VP" /\ is_potentially_shared(n)
  \/ n.k \in {"Unary", "Count"} /\ n.e.k = "VP" /\ is_potentially_shared(n.e)
  \/ n.k = "Assign" /\ n.target.k = "VP" /\ is_potentially_shared(n.target)

\* The property an instrumented construct accesses, if it accesses one.
AccessedProperty(n) ==
  CASE n.k = "Property" -> n
    [] n.k = "Call" -> n.fn
    [] n.k = "Assign" -> n.target
    [] OTHER -> n.e

\* The operands of an instrumented construct, left to right: the object,
\* the key if it is computed, and the value or the arguments.
Operands(n) ==
  LET rest == CASE n.k = "Call" -> n.args
                [] n.k = "Assign" -> <<n.value>>
                [] OTHER -> << >>
  IN IF IsWrapped(n)
     THEN <<AccessedProperty(n).obj>>
          \o (IF AccessedProperty(n).key.k \in {"Str", "Smi", "Num"} THEN << >>
              ELSE <<AccessedProperty(n).key>>)
          \o rest
     ELSE rest

RewrittenOperands(n, sc) ==
  [i \in 1..Len(Operands(n)) |-> Accept(Operands(n)[i], sc)]

\* The variables, the properties and the frame of two stores are the same.
SameStore(s, t) ==
  /\ s.glob = t.glob
  /\ s.ctxv = t.ctxv
  /\ s.heap = t.heap
  /\ s.loc = t.loc

IsDynamicGlobal(var) == IsNullVar(var) \/ IsLookupSlot(var) \/ IsUnallocated(var)

\* C1: value preservation.  Whenever the original expression evaluates
\* without an exception, the rewritten expression evaluates without an
\* exception to the same value and leaves the same variables and
\* properties.
C1_ValuePreservation ==
  (pc = "executed" /\ node.k # "Fun" /\ run0.ok)
    => (run1.ok /\ run1.v = run0.v /\ SameStore(run0.st, run1.st))

\* C2: single evaluation.  The rewrite of a wrapped construct is a call
\* whose arguments are the rewritten object, computed key and value or call
\* arguments, in this order (followed at most by the literal id of a
\* function value); none of them occurs in the callee; and running the
\* rewritten code leaves the frame as the original code does, so the
\* effect of an operand on a local happens once.
C2_SingleEvaluation ==
  (pc # "parsed" /\ IsWrapped(node))
    => /\ out.k = "Call"
       /\ Len(out.args) >= Len(Operands(node))
       /\ SubSeq(out.args, 1, Len(Operands(node))) = RewrittenOperands(node, scope0)
       /\ \A i \in 1..Len(out.args) :
            IF i <= Len(Operands(node))
            THEN Occurrences(out.args[i], out.fn) = 0
            ELSE out.args[i].k = "Smi"
       /\ (pc = "executed" /\ run0.ok) => (run1.ok /\ run1.st.loc = run0.st.loc)

\* A property read whose key increments a local has been rewritten and run:
\* the local has been incremented once.
C2_Witness ==
  /\ pc = "executed"
  /\ node = Property(VariableProxy(bVar),
                     CountOperation("INC", FALSE, VariableProxy(aVar)))
  /\ run1.ok
  /\ env.loc["a"] = NumV(0)
  /\ run1.st.loc["a"] = NumV(1)

\* C3: exactly one hook call per instrumented access.  The rewrite of an
\* instrumented construct holds one hook call more than the rewrites of
\* its operands hold together.
C3_OneHookPerAccess ==
  (pc # "parsed" /\ (IsWrapped(node) \/ IsSharedAccess(node)))
    => HookCount(out) = 1 + HookCountSeq(RewrittenOperands(node, scope0))

\* An assignment to a global whose value is itself an instrumented
\* assignment has been rewritten.
C3_Witness ==
  /\ pc = "rewritten"
  /\ node = Assignment("ASSIGN", VariableProxy(gVar),
                       Assignment("ASSIGN", VariableProxy(gVar), SmiLiteral(0)))
  /\ HookCount(out) = 2

\* C4: hook fidelity.  The read of a potentially shared dynamic-global
\* identifier x is rewritten to ER_read("x", x); running it calls the read
\* hook once, with the name and the current value of x, and yields that
\* value.
C4_HookFidelity ==
  (pc # "parsed" /\ node.k = "VP" /\ is_potentially_shared(node)
     /\ IsDynamicGlobal(node.var))
    => /\ out = Call(fn_proxy("_ER_read"), <<StringLiteral(node.name), node>>)
       /\ (pc = "executed" /\ run0.ok)
            => /\ run1.ok
               /\ run1.v = LookupVar(node.var, env)
               /\ run1.st.log = <<[fn |-> "_ER_read",
                                   args |-> <<StrV(node.name),
                                              LookupVar(node.var, env)>>]>>

\* The read of the global g, holding 1, has been rewritten and run.
C4_Witness ==
  /\ pc = "executed"
  /\ node = VariableProxy(gVar)
  /\ env.glob["g"] = NumV(1)
  /\ run1.ok
  /\ Len(run1.st.log) = 1

\* The scopes around the scope s, s included.
RECURSIVE EnclosingScopes(_)
EnclosingScopes(s) ==
  IF s = NoScope THEN {} ELSE {s} \cup EnclosingScopes(ScopeTable[s].outer)

\* The number of contexts between the scope from and the scope to around
\* it: a scope has a context if it is a with scope or has heap slots.
ContextDepth(from, to) ==
  Cardinality({s \in EnclosingScopes(from) \ EnclosingScopes(to) :
                 ScopeTable[s].with \/ ScopeTable[s].heap})

ReadPropOf(vp, d) ==
  Call(fn_proxy("_ER_readProp"),
       <<CallRuntime("%GetContextN", <<SmiLiteral(d)>>), StringLiteral(vp.name), vp>>)

FunDeclCount(dcls) == Cardinality({i \in DOMAIN dcls : dcls[i].k = "FunDecl"})

\* The function literals the rewrite instruments: a body is there and is
\* not empty.
HasStatements(n) == n.k = "Fun" /\ n.hasBody /\ Len(n.body) > 0

\* The rewrite of statement i of the body of the function literal node.
UserStmt(i) == out.body[1 + FunDeclCount(node.decls) + i]

C6_StackLocal ==
  /\ (pc # "parsed" /\ node.k = "VP" /\ IsStackAllocated(node.var)) => out = node
  /\ (pc # "parsed" /\ node.k = "Count" /\ node.e.k = "VP"
        /\ IsStackAllocated(node.e.var))
       => out = node
  /\ (pc # "parsed" /\ node.k = "Assign" /\ node.target.k = "VP"
        /\ IsStackAllocated(node.target.var))
       => /\ out.k = "Assign"
          /\ out.op = node.op
          /\ out.target = node.target
          /\ out.value = Accept(node.value, scope0)
          /\ HookCount(out) = HookCount(Accept(node.value, scope0))

\* A compound assignment of a global to a local has been rewritten: the
\* value is logged, the assignment is not.
C6_Witness ==
  /\ pc = "rewritten"
  /\ node = Assignment("ASSIGN_ADD", VariableProxy(aVar), VariableProxy(gVar))
  /\ HookCount(out) = 1

\* C7: postfix semantics.  x++ and x-- of a potentially shared identifier
\* holding a number are rewritten to a call without arguments of a function
\* without parameters and with the local $value, whose body ends with
\* return $value; running it yields the old value of x and leaves x one
\* more, or one less.
C7_Postfix ==
  (pc = "executed" /\ node.k = "Count" /\ ~node.prefix /\ node.e.k = "VP"
     /\ is_potentially_shared(node.e) /\ LookupVar(node.e.var, env).t = "num")
    => /\ out.k = "Call" /\ out.args = << >>
       /\ out.fn.k = "Fun" /\ out.fn.nparams = 0
       /\ out.fn.scope.params = << >> /\ out.fn.scope.locals = <<v_local>>
       /\ Len(out.fn.body) = 3
       /\ out.fn.body[1].stmts[1].e.target = VariableProxy(v_local)
       /\ out.fn.body[1].stmts[1].e.value = VariableProxy(node.e.var)
       /\ out.fn.body[2].e.k = "Assign"
       /\ out.fn.body[2].e.target = VariableProxy(node.e.var)
       /\ IsHookCall(out.fn.body[2].e.value)
       /\ out.fn.body[3] = ReturnStatement(VariableProxy(v_local))
       /\ run1.ok
       /\ run1.v = LookupVar(node.e.var, env)
       /\ LookupVar(node.e.var, run1.st)
            = NumV(LookupVar(node.e.var, env).n
                   + (IF node.op = "INC" THEN 1 ELSE 0 - 1))

\* g++ has been run with g holding 1: it yields 1 and g holds 2.
C7_Witness ==
  /\ pc = "executed"
  /\ node = CountOperation("INC", FALSE, VariableProxy(gVar))
  /\ env.glob["g"] = NumV(1)
  /\ run1.ok
  /\ run1.v = NumV(1)
  /\ run1.st.glob["g"] = NumV(2)

\* The function literals of a tree which the pass has not made, outermost
\* first.
RECURSIVE FunsOf(_)
RECURSIVE FunsOfSeq(_)
FunsOf(n) ==
  IF n.k = "Fun" /\ n.scope.hack THEN << >>
  ELSE (IF n.k = "Fun" THEN <<n>> ELSE << >>) \o FunsOfSeq(Children(n))
FunsOfSeq(ns) ==
  IF Len(ns) = 0 THEN << >> ELSE FunsOf(ns[1]) \o FunsOfSeq(Tail(ns))

\* The return statements of a tree in the order of the text, each with the
\* mark syn telling that it stands in a function the pass has made.
RECURSIVE ReturnsOf(_, _)
RECURSIVE ReturnsOfSeq(_, _)
ReturnsOf(n, syn) ==
  (IF n.k = "Return" THEN <<[e |-> n.e, syn |-> syn]>> ELSE << >>)
  \o ReturnsOfSeq(Children(n), IF n.k = "Fun" THEN n.scope.hack ELSE syn)
ReturnsOfSeq(ns, syn) ==
  IF Len(ns) = 0 THEN << >>
  ELSE ReturnsOf(ns[1], syn) \o ReturnsOfSeq(Tail(ns), syn)

IsSyn(r) == r.syn
IsUser(r) == ~r.syn

\* The statement calling the function-entry hook of a function literal.
EntryStatement(name, script, id) ==
  ExpressionStatement(
    Call(fn_proxy("_ER_enterFunction"),
         <<IF name # "" THEN StringLiteral(name) ELSE NullLiteral,
           SmiLiteral(script), SmiLiteral(id)>>))

\* The statement return ER_exitFunction(undefined).
ExitUndefined ==
  ReturnStatement(Call(fn_proxy("_ER_exitFunction"), <<UndefinedLiteral>>))

\* The function id the pass gives a literal.
ExpectedId(lit) == IF info.shared # 0 THEN info.shared ELSE lit.lid

\* C8, as claimed: the first statement of the rewritten body of every
\* visited function literal, whatever the number of its statements, is the
\* call of the function-entry hook.
C8_EntryAlways ==
  (pc # "parsed" /\ node.k = "Fun" /\ node.hasBody)
    => /\ Len(out.body) >= 1
       /\ out.body[1] = EntryStatement(node.name, info.script, ExpectedId(node))

\* C8, amended: the first statement of the rewritten body of every visited
\* function literal whose body has a statement is the call of the
\* function-entry hook with the name or null, the script id and the function
\* id, and running the body calls this hook first; a function literal
\* without a body or with an empty body keeps its body.
C8_EntryNonEmpty ==
  /\ (pc # "parsed" /\ HasStatements(node))
       => /\ out.fid = ExpectedId(node)
          /\ out.body[1] = EntryStatement(node.name, info.script, ExpectedId(node))
          /\ (pc = "executed" /\ run1.ok)
               => /\ Len(run1.st.log) >= 1
                  /\ run1.st.log[1].fn = "_ER_enterFunction"
  /\ (pc # "parsed" /\ node.k = "Fun" /\ ~HasStatements(node))
       => out.body = node.body
  /\ pc # "parsed"
       => \A j \in DOMAIN FunsOf(out) :
            LET f == FunsOf(out)[j]
            IN Len(f.body) > 0
                 => f.body[1] = EntryStatement(f.name, info.script, ExpectedId(f))

\* A named function with declared functions and a body of statements has
\* been rewritten and run.
C8_Witness ==
  /\ pc = "executed"
  /\ HasStatements(node)
  /\ node.name = "h"
  /\ FunDeclCount(node.decls) = 2
  /\ info.shared = 0
  /\ run1.ok
  /\ run1.st.log[1].args = <<StrV("h"), NumV(info.script), NumV(node.lid)>>

\* C9: every return statement of the input is rewritten to
\* return ER_exitFunction(e) with e rewritten and wrapped once, and no return
\* statement of a function the pass has made is wrapped.  The returns of the
\* output outside of the made functions are those of the input and one more
\* for every function whose body did not end with a return.
C9_ReturnWrapping ==
  pc # "parsed"
    => LET rin == ReturnsOf(node, FALSE)
           rout == ReturnsOf(out, FALSE)
           user == SelectSeq(rout, IsUser)
           made == SelectSeq(rout, IsSyn)
           added == Cardinality({j \in DOMAIN FunsOf(node) :
                                  /\ HasStatements(FunsOf(node)[j])
                                  /\ FunsOf(node)[j].body[Len(FunsOf(node)[j].body)].k
                                       # "Return"})
       IN /\ \A j \in DOMAIN user :
               /\ IsExitCall(user[j].e)
               /\ Len(user[j].e.args) = 1
               /\ ~IsExitCall(user[j].e.args[1])
          /\ \A j \in DOMAIN made : ~IsExitCall(made[j].e)
          /\ Len(user) = Len(rin) + added
          /\ HasStatements(node)
               => \A i \in DOMAIN node.body :
                    node.body[i].k = "Return"
                      => UserStmt(i)
                           = ReturnStatement(
                               Call(fn_proxy("_ER_exitFunction"),
                                    <<Accept(node.body[i].e, node.scope.id)>>))

\* A function returning the value of a property has been rewritten: the
\* return of the input is wrapped, the return of the wrapper function of the
\* property read is not.
C9_Witness ==
  /\ pc = "rewritten"
  /\ HasStatements(node)
  /\ node.body[1] = ReturnStatement(Property(VariableProxy(oVar), StringLiteral("p")))
  /\ Len(SelectSeq(ReturnsOf(out, FALSE), IsSyn)) >= 1
  /\ IsExitCall(out.body[2 + FunDeclCount(node.decls)].e)

\* C10, as claimed: after every body which does not end with a return
\* statement, the empty body included, return ER_exitFunction(undefined) is
\* the last statement of the rewritten body.
C10_ExitAlways ==
  (pc # "parsed" /\ node.k = "Fun" /\ node.hasBody
     /\ (Len(node.body) = 0 \/ node.body[Len(node.body)].k # "Return"))
    => /\ Len(out.body) >= 1
       /\ out.body[Len(out.body)] = ExitUndefined

\* C10, amended: after a body with at least one statement which does not
\* end with a return statement, exactly one return
\* ER_exitFunction(undefined) is added as the last statement; after a body
\* which ends with a return statement nothing is added; a function literal
\* without a body or with an empty body keeps its body.
C10_ExitNonEmpty ==
  /\ (pc # "parsed" /\ HasStatements(node)
        /\ node.body[Len(node.body)].k # "Return")
       => /\ Len(out.body) = Len(node.body) + FunDeclCount(node.decls) + 2
          /\ out.body[Len(out.body)] = ExitUndefined
          /\ \A i \in 1..(Len(out.body) - 1) : out.body[i] # ExitUndefined
  /\ (pc # "parsed" /\ HasStatements(node)
        /\ node.body[Len(node.body)].k = "Return")
       => /\ Len(out.body) = Len(node.body) + FunDeclCount(node.decls) + 1
          /\ out.body[Len(out.body)]
               = ReturnStatement(
                   Call(fn_proxy("_ER_exitFunction"),
                        <<Accept(node.body[Len(node.body)].e, node.scope.id)>>))
  /\ (pc # "parsed" /\ node.k = "Fun" /\ ~HasStatements(node))
       => out.body = node.body

\* A function whose body ends with an assignment has been rewritten and
\* run: the exit hook is the last call logged.
C10_Witness ==
  /\ pc = "executed"
  /\ HasStatements(node)
  /\ node.body[Len(node.body)].k = "ExprStmt"
  /\ out.body[Len(out.body)] = ExitUndefined
  /\ run1.ok
  /\ run1.st.log[Len(run1.st.log)] = [fn |-> "_ER_exitFunction", args |-> <<UndefV>>]

\* The statement ER_writeFunc(name, null, id) announcing a declared function.
WriteFuncStatement(name, id) ==
  ExpressionStatement(
    Call(fn_proxy("_ER_writeFunc"),
         <<StringLiteral(name), NullLiteral, SmiLiteral(id)>>))

PositionsOf(stmt, body) == {i \in DOMAIN body : body[i] = stmt}

\* The positions of the calls of the function-entry hook in a body.
EntryPositions(body) ==
  {i \in DOMAIN body :
     /\ body[i].k = "ExprStmt"
     /\ IsHookCall(body[i].e)
     /\ body[i].e.fn.name = "_ER_enterFunction"}

FunDecls(dcls) == {j \in DOMAIN dcls : dcls[j].k = "FunDecl"}

\* C11, as claimed: for every function declaration of the scope of a
\* function literal the rewritten body holds one statement
\* ER_writeFunc(name, null, id of the declared function), and it stands
\* before the call of the function-entry hook.
C11_WriteFuncBeforeEntry ==
  (pc # "parsed" /\ node.k = "Fun" /\ node.hasBody)
    => \A j \in FunDecls(node.decls) :
         LET d == node.decls[j]
             at == PositionsOf(WriteFuncStatement(d.proxy.name, ExpectedId(d.fun)),
                               out.body)
         IN /\ Cardinality(at) = 1
            /\ EntryPositions(out.body) # {}
            /\ \A i \in at : \A e \in EntryPositions(out.body) : i < e

\* C11, amended: for every function declaration of the scope of a function
\* literal whose body has a statement the rewritten body holds one
\* statement ER_writeFunc(name, null, id of the declared function); it
\* stands after the call of the function-entry hook and before the
\* statements of the input, and running the body logs it after the
\* function entry.  The id is the one the pass has given the declared
\* function.
C11_WriteFuncAfterEntry ==
  (pc # "parsed" /\ HasStatements(node))
    => /\ \A j \in FunDecls(node.decls) :
            LET d == node.decls[j]
                at == PositionsOf(WriteFuncStatement(d.proxy.name, ExpectedId(d.fun)),
                                  out.body)
            IN /\ Cardinality(at) = 1
               /\ out.decls[j].fun.fid = ExpectedId(d.fun)
               /\ \A i \in at :
                    /\ i <= 1 + FunDeclCount(node.decls)
                    /\ \A e \in EntryPositions(out.body) : e < i
       /\ EntryPositions(out.body) = {1}
       /\ (pc = "executed" /\ run1.ok)
            => \A i \in 1..FunDeclCount(node.decls) :
                 run1.st.log[1 + i].fn = "_ER_writeFunc"

\* A function declaring h1 and h2 has been rewritten and run: the entry is
\* logged first, then h2 and h1.
C11_Witness ==
  /\ pc = "executed"
  /\ HasStatements(node)
  /\ FunDeclCount(node.decls) = 2
  /\ info.shared = 0
  /\ out.body[2] = WriteFuncStatement("h2", 5)
  /\ out.body[3] = WriteFuncStatement("h1", 4)
  /\ run1.ok
  /\ run1.st.log[2].args = <<StrV("h2"), NullV, NumV(5)>>

WritePropBody(key, value) ==
  <<ReturnStatement(
      Assignment("ASSIGN", Property(VariableProxy(o_parm), key),
                 Call(fn_proxy("_ER_writeProp"),
                      <<VariableProxy(o_parm), key, value>>)))>>

\* The calls of the native function fn a run has made.
CallsOf(fn, r) == Cardinality({i \in DOMAIN r.st.calls : r.st.calls[i].fn = fn})

\* obj.key = obj.key + 1 with a literal string key.
IsIncrementScenario(n) ==
  /\ n.k = "Assign" /\ n.op = "ASSIGN"
  /\ n.target.k = "Property" /\ n.target.key.k = "Str"
  /\ n.value = BinaryOperation("ADD", n.target, SmiLiteral(1))

\* C13, as claimed: obj.key = obj.key + 1 is rewritten to a call of a made
\* function in which obj occurs once and whose body is
\* return $obj.key = ER_writeProp($obj, "key", $obj.key + 1); running it
\* evaluates obj once.
C13_AssignScenario ==
  (pc # "parsed" /\ IsIncrementScenario(node))
    => /\ out.k = "Call" /\ out.fn.k = "Fun" /\ out.fn.scope.hack
       /\ Occurrences(Accept(node.target.obj, scope0), out) = 1
       /\ out.fn.body
            = WritePropBody(node.target.key,
                            BinaryOperation("ADD",
                                            Property(VariableProxy(o_parm),
                                                     node.target.key),
                                            SmiLiteral(1)))
       /\ (pc = "executed" /\ run0.ok /\ node.target.obj.k = "Call")
            => run1.ok /\ CallsOf(MakerId, run1) = 1

\* C13, amended: the compound assignment obj.key OP= e with a literal
\* string key is rewritten to a call, with the rewritten obj and e as the
\* arguments, of a made function of $obj and $value whose body is
\* return $obj.key = ER_writeProp($obj, "key", $obj.key OP $value); obj
\* occurs once in the rewritten code, and running it evaluates obj once,
\* stores the value it yields in the property and logs the write with this
\* value last.
C13_CompoundScenario ==
  (pc # "parsed" /\ node.k = "Assign" /\ is_compound(node.op)
     /\ node.target.k = "Property" /\ node.target.key.k = "Str")
    => /\ out.k = "Call" /\ out.fn.k = "Fun" /\ out.fn.scope.hack
       /\ out.args = <<Accept(node.target.obj, scope0), Accept(node.value, scope0)>>
       /\ out.fn.nparams = 2
       /\ out.fn.scope.params = <<o_parm, v_parm(1)>>
       /\ out.fn.body
            = WritePropBody(node.target.key,
                            BinaryOperation(binary_op(node.op),
                                            Property(VariableProxy(o_parm),
                                                     node.target.key),
                                            VariableProxy(v_parm(1))))
       /\ (pc = "executed" /\ run0.ok)
            => /\ run1.ok
               /\ run1.st.calls = run0.st.calls
               /\ Len(run1.st.log) >= 1
               /\ LET last == run1.st.log[Len(run1.st.log)]
                  IN /\ last.fn = "_ER_writeProp"
                     /\ last.args[2] = StrV(node.target.key.s)
                     /\ last.args[3] = run1.v
                     /\ GetProp(last.args[1], last.args[2], run1.st) = run1.v

\* mk().p += 1 has been rewritten and run: mk has been called once and the
\* property holds one more.
C13_Witness ==
  /\ pc = "executed"
  /\ node = Assignment("ASSIGN_ADD",
                       Property(Call(VariableProxy(mkVar), << >>), StringLiteral("p")),
                       SmiLiteral(1))
  /\ env.heap[1]["p"] = NumV(1)
  /\ run1.ok
  /\ CallsOf(MakerId, run1) = 1
  /\ run1.v = NumV(2)
  /\ run1.st.heap[1]["p"] = NumV(2)

IsTypeofShared(n) ==
  n.k = "Unary" /\ n.op = "TYPEOF" /\ n.e.k = "VP" /\ is_potentially_shared(n.e)

\* The call of the read hook of the identifier vp with the value argument
\* value, d contexts away from the declaring scope.
ReadHookOf(vp, value, d) ==
  IF IsContextSlot(vp.var)
  THEN Call(fn_proxy("_ER_readProp"),
            <<CallRuntime("%GetContextN", <<SmiLiteral(d)>>),
              StringLiteral(vp.name), value>>)
  ELSE Call(fn_proxy("_ER_read"), <<StringLiteral(vp.name), value>>)

\* C14, as claimed: typeof id of a potentially shared identifier is
\* rewritten to typeof ER_read(name, id), typeof ER_readProp(ctx, name, id)
\* for a context slot.
C14_TypeofOfRead ==
  (pc # "parsed" /\ IsTypeofShared(node))
    => out = UnaryOperation("TYPEOF",
                            ReadHookOf(node.e, node.e,
                                       ContextDepth(scope0, node.e.var.scope)))

\* C14, amended: typeof id of a potentially shared identifier is rewritten
\* to ER_read(name, typeof id), ER_readProp(ctx, name, typeof id) for a
\* context slot: the identifier is not read on its own, the hook is given
\* the result of typeof, and running the rewritten code logs this one call
\* and yields the type of the original.
C14_ReadOfTypeof ==
  (pc # "parsed" /\ IsTypeofShared(node))
    => /\ out = ReadHookOf(node.e, node,
                           ContextDepth(scope0, node.e.var.scope))
       /\ HookCount(out) = 1
       /\ (pc = "executed" /\ run0.ok)
            => /\ run1.ok
               /\ run1.v = run0.v
               /\ Len(run1.st.log) = 1
               /\ run1.st.log[1].args[Len(run1.st.log[1].args)] = run0.v
               /\ SameStore(run0.st, run1.st)

\* typeof g has been rewritten and run with g holding a number.
C14_Witness ==
  /\ pc = "executed"
  /\ node = UnaryOperation("TYPEOF", VariableProxy(gVar))
  /\ env.glob["g"] = NumV(1)
  /\ run1.ok
  /\ run1.v = StrV("number")
  /\ run1.st.log = <<[fn |-> "_ER_read", args |-> <<StrV("g"), StrV("number")>>]>>

\* C15: function-literal tagging.  In the rewrite of a simple assignment
\* id = value to a potentially shared identifier, global or in a context
\* slot, the write hook is the function variant with the function id of the
\* literal as the last argument if value is a function literal, and the
\* plain write hook otherwise.
C15_FunctionTagging ==
  (pc # "parsed" /\ node.k = "Assign" /\ node.op = "ASSIGN"
     /\ node.target.k = "VP" /\ is_potentially_shared(node.target))
    => /\ out.k = "Assign"
       /\ IsHookCall(out.value)
       /\ IF node.value.k = "Fun"
          THEN /\ out.value.fn.name \in {"_ER_writeFunc", "_ER_writePropFunc"}
               /\ out.value.args[Len(out.value.args)]
                    = SmiLiteral(ExpectedId(node.value))
          ELSE out.value.fn.name \in {"_ER_write", "_ER_writeProp"}

\* A call whose callee is the identifier eval.
IsDirectEval(n) == n.k = "Call" /\ n.fn.k = "VP" /\ n.fn.name = "eval"

\* C16: a direct call of eval is returned as the same call: its callee is
\* the identifier of the input, not a call of the read hook, no function is
\* put around it, and it has the arguments of the input, each rewritten;
\* the only hook calls in it are those of its arguments.
C16_DirectEval ==
  (pc # "parsed" /\ IsDirectEval(node))
    => /\ out.k = "Call"
       /\ out.fn = node.fn
       /\ ~IsHookCall(out.fn)
       /\ Len(out.args) = Len(node.args)
       /\ \A i \in DOMAIN node.args : out.args[i] = Accept(node.args[i], scope0)
       /\ HookCount(out) = HookCountSeq(out.args)

\* eval(g) has been rewritten: the callee is eval itself, the argument is
\* read through the hook.
C16_Witness ==
  /\ pc = "rewritten"
  /\ node = Call(VariableProxy(evalVar), <<VariableProxy(gVar)>>)
  /\ out.fn = VariableProxy(evalVar)
  /\ IsHookCall(out.args[1])

\* C17: a runtime call of InitializeVarGlobal with a value argument has
\* this argument replaced by ER_write(name, value), by
\* ER_writeFunc(name, value, function id) if the value is a function
\* literal, and nothing else changed; a call without a value argument is
\* returned as it is, and the pass does not take a third argument from it.
C17_InitializeVarGlobal ==
  (pc # "parsed" /\ IsInitializeVarGlobal(node))
    => /\ pc # "crashed"
       /\ IF Len(node.args) >= 3
          THEN LET value == Accept(node.args[3], scope0)
               IN /\ out.name = node.name
                  /\ Len(out.args) = 3
                  /\ out.args[1] = node.args[1] /\ out.args[2] = node.args[2]
                  /\ out.args[3]
                       = IF node.args[3].k = "Fun"
                         THEN Call(fn_proxy("_ER_writeFunc"),
                                   <<node.args[1], value,
                                     SmiLiteral(ExpectedId(node.args[3]))>>)
                         ELSE Call(fn_proxy("_ER_write"), <<node.args[1], value>>)
          ELSE out = node

\* C18: a second walk over the unchanged rewritten tree leaves every
\* literal with the literal index, every node with the first feedback slot,
\* and every function literal with the literal count and the feedback slot
\* count the first walk has given them.
C18_IdempotentMetadata ==
  (pc = "counted" /\ pass = 2)
    => /\ counter.literal_index = walk1.literal_index
       /\ counter.slot = walk1.slot
       /\ counter.literal_count = walk1.literal_count
       /\ counter.props = walk1.props

\* The tree has been walked twice; a function nested in it has a literal
\* and a slot of its own, and the outer function a second literal.
C18_Witness ==
  /\ pc = "counted"
  /\ pass = 2
  /\ \E f \in DOMAIN counter.props :
       /\ f # << >>
       /\ counter.literal_count[f] > 0
       /\ counter.props[f].feedback_slots > 0
  /\ \E q \in DOMAIN counter.literal_index :
       counter.literal_index[q] > kLiteralsPrefixSize
  /\ \E q \in DOMAIN counter.slot :
       arena[q].k = "VP" /\ counter.slot[q] \notin {kInvalidFeedbackSlot, Stale}

IsPrefix(f, q) == Len(f) <= Len(q) /\ SubSeq(q, 1, Len(f)) = f

\* The function literals with a body, and the nodes directly in one of
\* them: below it, with no other function body in between.
FunctionPaths == {f \in DOMAIN counter.props : arena[f].hasBody}

\* The innermost function body the node at q is in; the root is in none.
RECURSIVE Owner(_, _)
Owner(q, n) ==
  IF n < 0 THEN <<0>>
  ELSE IF arena[SubSeq(q, 1, n)].k = "Fun" THEN SubSeq(q, 1, n)
  ELSE Owner(q, n - 1)

DirectlyIn(f) == {q \in DOMAIN arena : Owner(q, Len(q) - 1) = f}

\* The nodes with a range of feedback slots, and their ranges.
HasRange(q) ==
  /\ ComputeFeedbackSlotCount(arena[q]) > 0
  /\ counter.slot[q] # kInvalidFeedbackSlot

SlotRange(q) ==
  counter.slot[q] .. (counter.slot[q] + ComputeFeedbackSlotCount(arena[q]) - 1)

RangedIn(f) == {q \in DirectlyIn(f) : HasRange(q)}

LiteralsIn(f) == {q \in DirectlyIn(f) : IsMaterializedLiteral(arena[q])}

\* C19: after a walk, in every function the ranges of feedback slots of its
\* nodes are pairwise disjoint and cover exactly the slots from 0 up to the
\* function's slot count, and the literal indices of its literals are
\* distinct and consecutive from the starting offset of a frame.
C19_ContiguousSlots ==
  pc = "counted"
    => \A f \in FunctionPaths :
         /\ \A q1, q2 \in RangedIn(f) :
              q1 # q2 => SlotRange(q1) \cap SlotRange(q2) = {}
         /\ UNION {SlotRange(q) : q \in RangedIn(f)}
              = 0 .. (counter.props[f].feedback_slots - 1)
         /\ \A l1, l2 \in LiteralsIn(f) :
              l1 # l2 => counter.literal_index[l1] # counter.literal_index[l2]
         /\ {counter.literal_index[l] : l \in LiteralsIn(f)}
              = kLiteralsPrefixSize
                .. (kLiteralsPrefixSize + Cardinality(LiteralsIn(f)) - 1)

\* A function has a node with a range of three slots followed by the range
\* of another node, two literals of its own, and a function nested in it
\* with a literal and a range of its own.
C19_Witness ==
  /\ pc = "counted"
  /\ \E f \in FunctionPaths :
       /\ \E q1, q2 \in RangedIn(f) :
            /\ Cardinality(SlotRange(q1)) = 3
            /\ counter.slot[q2] = counter.slot[q1] + 3
       /\ Cardinality(LiteralsIn(f)) >= 2
       /\ \E g \in FunctionPaths \cap DirectlyIn(f) :
            LiteralsIn(g) # {} /\ RangedIn(g) # {}

\* p comes before q in the order of the walk.
RECURSIVE Precedes(_, _)
Precedes(p, q) ==
  IF p = << >> THEN q # << >>
  ELSE IF q = << >> THEN FALSE
  ELSE IF Head(p) = Head(q) THEN Precedes(Tail(p), Tail(q))
  ELSE Head(p) < Head(q)

\* The nodes the current walk has visited.
Visited(q) ==
  IF pc # "counting" THEN pc = "counted"
  ELSE IF work = << >> THEN TRUE
  ELSE IF Head(work).op = "visit" THEN Precedes(q, Head(work).path)
  ELSE Precedes(q, Head(work).path) \/ IsPrefix(Head(work).path, q)

\* The function literals the walk is in, the innermost first.
IsEndItem(it) == it.op = "end"
OpenFunctions == SelectSeq(work, IsEndItem)
IsOpen(f) == \E i \in DOMAIN OpenFunctions : OpenFunctions[i].path = f

\* The slots the nodes of a set need.
RECURSIVE SlotsOf(_)
SlotsOf(qs) ==
  IF qs = {} THEN 0
  ELSE LET q == CHOOSE x \in qs : TRUE
       IN ComputeFeedbackSlotCount(arena[q]) + SlotsOf(qs \ {q})

\* The nodes the walk has visited, each with the function body it is
\* directly in.
VisitedNodes == {<<q, Owner(q, Len(q) - 1)>> : q \in {p \in DOMAIN arena : Visited(p)}}

VisitedIn(vs, f) == {v[1] : v \in {w \in vs : w[2] = f}}

\* C20: a function literal the walk has left has the literal count and the
\* feedback slot count of the nodes directly in it, those of the functions
\* nested in it not included; and the frame of every function the walk is
\* in holds the counts of the nodes directly in that function visited so
\* far, so that after a nested function is left the enclosing frame has the
\* values it had when the nested function was entered.
C20_FunctionFrames ==
  pc \in {"counting", "counted"}
    => LET vs == VisitedNodes
       IN /\ Len(counter.state_) = Len(OpenFunctions) + 1
          /\ \A i \in DOMAIN OpenFunctions :
               LET state == counter.state_[i]
                   qs == VisitedIn(vs, OpenFunctions[i].path)
               IN /\ state.node_count = Cardinality(qs)
                  /\ state.materialized_literal_count - kLiteralsPrefixSize
                       = Cardinality({q \in qs : IsMaterializedLiteral(arena[q])})
                  /\ state.feedback_slot_count = SlotsOf({q \in qs : HasRange(q)})
          /\ \A f \in FunctionPaths :
               (Visited(f) /\ ~IsOpen(f))
                 => LET qs == VisitedIn(vs, f)
                    IN /\ counter.literal_count[f]
                            = Cardinality({q \in qs : IsMaterializedLiteral(arena[q])})
                       /\ counter.props[f].feedback_slots
                            = SlotsOf({q \in qs : HasRange(q)})

\* The walk has left a nested function with a literal and a slot of its
\* own and is back in the enclosing function, whose frame has counted a
\* literal and a slot before.
C20_Witness ==
  /\ pc = "counting"
  /\ Len(OpenFunctions) >= 1
  /\ LET f == OpenFunctions[1].path
     IN /\ counter.state_[1].materialized_literal_count > kLiteralsPrefixSize
        /\ counter.state_[1].feedback_slot_count > 0
        /\ \E g \in FunctionPaths \cap DirectlyIn(f) :
             /\ Visited(g)
             /\ ~IsOpen(g)
             /\ counter.literal_count[g] = 1
             /\ counter.props[g].feedback_slots > 0
             /\ \E q \in LiteralsIn(f) : Visited(q) /\ Precedes(q, g)

\* C21: a function literal the walk has left has, as its node count, the
\* number of nodes the walk has counted in the frame of that function.
C21_NodeCountWriteBack ==
  pc \in {"counting", "counted"}
    => LET vs == VisitedNodes
       IN \A f \in FunctionPaths :
            (Visited(f) /\ ~IsOpen(f))
              => counter.props[f].node_count = Cardinality(VisitedIn(vs, f))

\* C22: when the rewrite of a node returns, the current-scope register and
\* the chain of node-id allocation scopes are as they were when the node
\* was visited; this holds for every node the pass visits, on the early
\* returns as well.
C22_BalancedScopes ==
  pc \in {"rewritten", "executed"}
    => /\ registers = StartRegisters(scope0)
       /\ RegistersAfter(node, scope0).ok

\* A function literal with an empty body has been rewritten: its rule has
\* returned early, after the declarations, among them a variable which is
\* not shared and a function with an empty body.
C22_Witness ==
  /\ pc = "rewritten"
  /\ node.k = "Fun"
  /\ node.hasBody
  /\ Len(node.body) = 0
  /\ \E i \in DOMAIN node.decls :
       /\ node.decls[i].k = "VarDecl"
       /\ ~is_potentially_shared(node.decls[i].proxy)
  /\ \E i \in DOMAIN node.decls :
       /\ node.decls[i].k = "FunDecl"
       /\ Len(node.decls[i].fun.body) = 0
  /\ out.decls # node.decls

\* Every reference to an instrumentation function in the tree n is the
\* callee of a call, marked and bound to the dynamic global; callee tells
\* whether n itself is the callee of a call.
RECURSIVE HookReferences(_, _)
HookReferences(n, callee) ==
  /\ (n.k = "VP" /\ n.name \in InstrumentationFunctions)
       => callee /\ n.dni /\ n.var = DeclareDynamicGlobal(n.name)
  /\ \A i \in DOMAIN Children(n) :
       HookReferences(Children(n)[i], n.k = "Call" /\ i = 1)

\* C23: in the rewritten tree every reference to an instrumentation
\* function is the callee of a call, is marked do-not-instrument and is
\* bound to the dynamic global of that name; none is an argument of a hook
\* call or stands anywhere else.
C23_HookReferences ==
  pc \in {"rewritten", "executed"} => HookReferences(out, FALSE)

\* A rewritten tree which is a hook call with a hook call inside one of its
\* arguments.
C23_Witness ==
  /\ pc = "rewritten"
  /\ IsHookCall(out)
  /\ out.fn.name \in InstrumentationFunctions
  /\ \E i \in DOMAIN out.args : HookCount(out.args[i]) > 0

\* C24: if the global scope of the program lacks a binding of one of the
\* instrumentation functions, the construction of the pass fails, so that
\* no tree is rewritten.
C24_ResolutionFailure ==
  info.global_scope # InstrumentationFunctions
    => pc = "parsed" /\ out = node

\* C24, as the code has it: where the global scope lacks a binding of an
\* instrumentation function the constructor declares a dynamic global of
\* that name, and the tree is rewritten as it is where the binding is
\* there: every callee of a hook call is a reference to the declared
\* variable.
RECURSIVE HookCallees(_)
HookCallees(n) ==
  (IF IsHookCall(n) THEN {n.fn} ELSE {})
  \cup UNION {HookCallees(Children(n)[i]) : i \in DOMAIN Children(n)}

C24_DeclaredAtConstruction ==
  info.global_scope # InstrumentationFunctions
    => /\ \A fn \in InstrumentationFunctions :
            instr_fn_[fn] = DeclareDynamicGlobal(fn)
       /\ pc \in {"rewritten", "executed"}
            => /\ out = Accept(node, scope0)
               /\ \A c \in HookCallees(out) :
                    c.name \in InstrumentationFunctions /\ c.var = instr_fn_[c.name]

\* A tree has been rewritten with a call of a hook which has no binding in
\* the global scope.
C24_Witness ==
  /\ pc = "rewritten"
  /\ \E c \in HookCallees(out) : c.name \notin info.global_scope

(***************************************************************************)
(* Node instances.  A tree of the model is a value; the instance which     *)
(* stands at a place of a synthetic function is told by the factory call   *)
(* which has made it: New(site, i) is the node made by the i-th call at    *)
(* the site o (NewVariableProxy(o_parm)), k (duplicate_key or              *)
(* NewVariableProxy(k_parm)), v (a reference of $value) or a (a reference  *)
(* of an argument).  The Placed operators list, rule by rule, the          *)
(* instances the code puts into the body, in the order of the places.      *)
(***************************************************************************)
New(site, i) == [site |-> site, i |-> i]

News(site, n) == [i \in 1..n |-> New(site, i - 1)]

\* Property read with a literal key: ER_readProp(o[0], k[0], o[1].k[1]).
PlacedProperty(p) == <<New("o", 0), New("k", 0), New("o", 1), New("k", 1)>>

\* A variant which puts o[1] into the callee as well.
PlacedCall_shared(c) ==
  <<New("o", 0), New("k", 0), New("o", 1), New("k", 1), New("o", 1), New("k", 2)>>
  \o News("a", Len(c.args))

\* Property call: ER_readProp(o[0], k[0], o[1].k[1]); return
\* o[2].k[2](a...).
PlacedCall(c) ==
  <<New("o", 0), New("k", 0), New("o", 1), New("k", 1), New("o", 2), New("k", 2)>>
  \o News("a", Len(c.args))

\* Delete of a property: ER_deleteProp(o[0], k[0]); return delete o[1].k[1].
PlacedDelete(op) == <<New("o", 0), New("k", 0), New("o", 1), New("k", 1)>>

\* Prefix count: return o[2].k[2] = ER_writeProp(o[0], k[0], o[1].k[1] + 1).
\* Postfix count of a property: $value = o[0].k[0]; o[2].k[2] =
\* ER_writeProp(o[1], k[1], $value + 1); return $value.  Postfix count of an
\* identifier: three references of $value.
PlacedCount(op) ==
  IF op.e.k = "VP" THEN News("v", 3)
  ELSE IF op.prefix
  THEN <<New("o", 2), New("k", 2), New("o", 0), New("k", 0), New("o", 1), New("k", 1)>>
  ELSE <<New("v", 0), New("o", 0), New("k", 0), New("o", 2), New("k", 2),
         New("o", 1), New("k", 1), New("v", 1), New("v", 2)>>

\* Assignment: return o[1].k[1] = ER_writeProp(o[0], k[0], v), with
\* o[2].k[2] OP v for the value of a compound one.
PlacedAssignment(op) ==
  <<New("o", 1), New("k", 1), New("o", 0), New("k", 0)>>
  \o (IF is_compound(op.op) THEN <<New("o", 2), New("k", 2)>> ELSE << >>)
  \o <<New("v", 0)>>

\* The instances in the body of the function the rule of n makes; none
\* where the rule makes no function with parameters or locals.
Placed(n) ==
  CASE n.k = "Property" /\ is_literal_key(n.key) -> PlacedProperty(n)
    [] n.k = "Call" /\ n.fn.k = "Property" -> PlacedCall(n)
    [] n.k = "Unary" /\ n.op = "DELETE" /\ n.e.k = "Property" /\ is_literal_key(n.e.key) ->
         PlacedDelete(n)
    [] n.k = "Count" /\ n.e.k = "Property" /\ is_literal_key(n.e.key) -> PlacedCount(n)
    [] n.k = "Count" /\ n.e.k = "VP" /\ is_potentially_shared(n.e) /\ ~n.prefix ->
         PlacedCount(n)
    [] n.k = "Assign" /\ n.target.k = "Property"
         /\ (is_literal_key(n.target.key) \/ is_compound(n.op)) -> PlacedAssignment(n)
    [] OTHER -> << >>

\* The places of a tree which hold a reference of a synthetic parameter or
\* local, or the copy of a literal key, each with the site which fills it.
SiteOf(vp) ==
  CASE vp.name = "$obj" -> "o"
    [] vp.name = "$key" -> "k"
    [] vp.name = "$value" -> "v"
    [] OTHER -> "a"

IsSynthetic(n) == n.k = "VP" /\ n.name \in {"$obj", "$key", "$value", "$a0", "$a1", "$a2", "$a3"}

RECURSIVE Sites(_)
RECURSIVE SitesSeq(_)
Sites(n) ==
  CASE IsSynthetic(n) -> <<SiteOf(n)>>
    [] n.k = "Property" /\ is_literal_key(n.key) -> Sites(n.obj) \o <<"k">>
    [] IsHookCall(n) /\ Len(n.args) >= 2 /\ IsSynthetic(n.args[1])
         /\ is_literal_key(n.args[2]) ->
         Sites(n.args[1]) \o <<"k">> \o SitesSeq(SubSeq(n.args, 3, Len(n.args)))
    [] OTHER -> SitesSeq(Children(n))
SitesSeq(ns) == IF ns = << >> THEN << >> ELSE Sites(Head(ns)) \o SitesSeq(Tail(ns))

\* C25: in the body of every synthetic function each reference of $obj,
\* $key, $value and of an argument, and each copy of a literal key, is an
\* instance of its own: the body has exactly the places the rule fills, and
\* the rule fills no two of them with the same instance.
C25_DistinctInstances ==
  (pc \in {"rewritten", "executed"} /\ Placed(node) # << >>)
    => LET ps == Placed(node)
       IN /\ IsSynthesized(out)
          /\ SitesSeq(out.fn.body) = [i \in DOMAIN ps |-> ps[i].site]
          /\ \A i, j \in DOMAIN ps : ps[i] = ps[j] => i = j

\* A property call with an argument and a computed key has been rewritten:
\* $obj and $key stand at three places each.
C25_Witness ==
  /\ pc = "rewritten"
  /\ node.k = "Call"
  /\ node.fn.k = "Property"
  /\ ~is_literal_key(node.fn.key)
  /\ Len(node.args) > 0
  /\ Len(Placed(node)) = 6 + Len(node.args)

\* C26: o.f(a0..an) and o[k](a0..an) become the call of a synthetic function
\* with the parameters $obj, $key if and only if the key is computed, and
\* $a0..$an, called with the rewritten o, k if computed, and a0..an, as many
\* arguments as parameters; the body is the statement
\* ER_readProp($obj, key, $obj.key) and return $obj.key($a0..$an), key being
\* $key or a copy of the literal.
C26_PropertyCallShape ==
  (pc \in {"rewritten", "executed"} /\ node.k = "Call" /\ node.fn.k = "Property")
    => LET computed == node.fn.key.k \notin {"Str", "Smi", "Num"}
           n == Len(node.args)
           names == <<"$obj">> \o (IF computed THEN <<"$key">> ELSE << >>)
                    \o [i \in 1..n |-> arg_name(i - 1)]
           obj == [k |-> "VP", name |-> "$obj", var |-> out.fn.scope.params[1],
                   dni |-> FALSE]
           key == IF computed
                  THEN [k |-> "VP", name |-> "$key", var |-> out.fn.scope.params[2],
                        dni |-> FALSE]
                  ELSE node.fn.key
           as == [i \in 1..n |->
                    [k |-> "VP", name |-> arg_name(i - 1),
                     var |-> out.fn.scope.params[i + Len(names) - n], dni |-> FALSE]]
       IN /\ out.k = "Call"
          /\ out.fn.k = "Fun"
          /\ out.fn.scope.hack
          /\ [i \in DOMAIN out.fn.scope.params |-> out.fn.scope.params[i].name] = names
          /\ \A i \in DOMAIN out.fn.scope.params :
               /\ out.fn.scope.params[i].loc = "parameter"
               /\ out.fn.scope.params[i].index = i - 1
          /\ out.fn.nparams = Len(names)
          /\ out.args = <<Accept(node.fn.obj, scope0)>>
                        \o (IF computed THEN <<Accept(node.fn.key, scope0)>> ELSE << >>)
                        \o [i \in 1..n |-> Accept(node.args[i], scope0)]
          /\ Len(out.args) = out.fn.nparams
          /\ out.fn.body =
               <<[k |-> "ExprStmt",
                  e |-> [k |-> "Call", fn |-> fn_proxy("_ER_readProp"),
                         args |-> <<obj, key,
                                    [k |-> "Property", obj |-> obj, key |-> key]>>]],
                 [k |-> "Return",
                  e |-> [k |-> "Call",
                         fn |-> [k |-> "Property", obj |-> obj, key |-> key],
                         args |-> as]]>>

\* Property calls with a computed key and an argument, and with a literal
\* key, have been rewritten.
C26_Witness ==
  /\ pc = "rewritten"
  /\ node.k = "Call"
  /\ node.fn.k = "Property"
  /\ node.fn.key.k = "VP"
  /\ Len(node.args) = 1
  /\ Len(out.args) = 3

\* C27: the rewritten o.f(a0..an) looks f up after o and before the
\* arguments, as the original does: the functions called by the rewritten
\* code, and their arguments, are the ones the original calls, also where
\* an argument assigns o.f.
C27_CallOrdering ==
  (pc = "executed" /\ node.k = "Call" /\ node.fn.k = "Property" /\ run0.ok)
    => (run1.ok /\ run1.st.calls = run0.st.calls)

\* C28: the rewritten o.k OP= e reads the property before e is evaluated, as
\* the original does: the value written and yielded is the old value OP e,
\* and the objects are left as the original leaves them, also where e
\* writes the same property.
C28_CompoundOrdering ==
  (/\ pc = "executed"
   /\ node.k = "Assign"
   /\ is_compound(node.op)
   /\ node.target.k = "Property"
   /\ run0.ok)
    => (run1.ok /\ run1.v = run0.v /\ run1.st.heap = run0.st.heap)

\* C29: the depth passed to %GetContextN is the number of contexts between
\* the scope in which the reference is evaluated and the declaring scope:
\* a reference in the object expression of a with statement is evaluated in
\* the scope around the with statement, a reference in its body in the
\* with scope, a reference elsewhere in the body of a function in the
\* scope of the function.
C29_EvaluationScopeDepth ==
  (pc # "parsed" /\ HasStatements(node))
    => \A i \in DOMAIN node.body :
         /\ node.body[i] = ReturnStatement(VariableProxy(cVar))
              => UserStmt(i).e.args[1].args[1].args[1].n
                   = ContextDepth(node.scope.id, cVar.scope)
         /\ node.body[i].k = "With"
              => /\ UserStmt(i).e.args[1].args[1].n
                      = ContextDepth(node.scope.id, node.body[i].e.var.scope)
                 /\ UserStmt(i).stmt.e.args[1].args[1].n
                      = ContextDepth(node.body[i].wscope, node.body[i].stmt.e.var.scope)

\* C30: the delete of an identifier which is stack allocated or in a
\* context slot keeps its operand: in the rewritten tree the delete is
\* still applied to the reference of the variable, not to a hook call.
C30_DeleteKeepsOperand ==
  (/\ pc # "parsed"
   /\ node.k = "Unary"
   /\ node.op = "DELETE"
   /\ node.e.k = "VP"
   /\ (IsStackAllocated(node.e.var) \/ IsContextSlot(node.e.var)))
    => (out.k = "Unary" /\ out.op = "DELETE" /\ out.e = node.e)
====
